---- MODULE Spec2Model ----
(***************************************************************************)
(* Campaign Dealer: the character randomizer, the provider lookup, the     *)
(* response normalisation and the two endpoint handlers                    *)
(* (generate-characters, generate-script), as one state machine.           *)
(*                                                                         *)
(* One operation runs per behaviour: a direct call of                      *)
(* generateRandomDistinctCharacters(count), a POST /api/campaign/characters*)
(* request or a POST /api/campaign/script request.  Math.random() is an    *)
(* input: every draw is a nondeterministic index into the array it picks   *)
(* from.  The text-generation backend is an input too: each complete()     *)
(* call is rejected or resolved with one of a few raw texts, in any order. *)
(***************************************************************************)
EXTENDS Integers, Sequences, FiniteSets, TLC

(***************************************************************************)
(* Bounds of the model.                                                    *)
(***************************************************************************)
\* largest count of a direct generateRandomDistinctCharacters call that is
\* within the 9 pairings (counts above the 9 pairings are drawn as well)
MaxCount == 3
\* how many counts above the number of pairings are tried (10, 11, ...)
OverCount == 2
\* largest playerCount of a generate-characters request that passes the schema
MaxPlayers == 2
\* the counter of generateCharacter() calls saturates here
MaxDraws == 5

(***************************************************************************)
(* shared/types/character.ts                                               *)
(***************************************************************************)
\* Object.values(CharacterArchetype)
CharacterArchetype == <<"king", "queen", "jack">>

\* Object.values(CharacterSuit): diamonds is not a player suit
CharacterSuit == <<"hearts", "clubs", "spades">>

Range(s) == {s[i] : i \in DOMAIN s}

(***************************************************************************)
(* server/data/houseDoesntWin/characterTemplates.ts                        *)
(***************************************************************************)
\* every archetype's pool holds seven skills
archetypeSkillCount == 7

skillNames == <<"skill1", "skill2", "skill3", "skill4", "skill5", "skill6", "skill7">>

i18nSkill(keyPrefix) ==
    [name |-> Append(keyPrefix, "name"), description |-> Append(keyPrefix, "description")]

\* the uses of the archetype skills that are limited (0: unlimited, no `uses`)
archetypeSkillUses ==
    [king  |-> <<0, 0, 0, 0, 0, 0, 0>>,
     queen |-> <<0, 0, 3, 1, 3, 3, 3>>,
     jack  |-> <<0, 1, 1, 3, 0, 1, 0>>]

suitSkillUses ==
    [king  |-> [hearts |-> 0, clubs |-> 0, spades |-> 0],
     queen |-> [hearts |-> 2, clubs |-> 0, spades |-> 0],
     jack  |-> [hearts |-> 0, clubs |-> 1, spades |-> 0]]

withUses(skill, n) ==
    IF n = 0 THEN skill
    ELSE [name |-> skill.name, description |-> skill.description,
          uses |-> [usesLeft |-> n, maxUses |-> n]]

suitSkills(archetype, suit) ==
    withUses(i18nSkill(<<"skills", archetype, "suit", suit>>),
             suitSkillUses[archetype][suit])

archetypeSkills(archetype) ==
    [i \in 1..archetypeSkillCount |->
        withUses(i18nSkill(<<"skills", archetype, "archetype", skillNames[i]>>),
                 archetypeSkillUses[archetype][i])]

\* the prose tables, each entry named by its key
suitCharacterizations(suit) == <<"suitCharacterization", suit>>

archetypeCharacterizations(archetype) == <<"archetypeCharacterization", archetype>>

(***************************************************************************)
(* server/utils/errors.ts (the Result variant)                             *)
(***************************************************************************)
ok(value) == [ok |-> TRUE, value |-> value]

err(error) == [ok |-> FALSE, error |-> error]

\* a message is its template and the values interpolated into it, in order
Msg(template, args) == [template |-> template, args |-> args]

NoData == <<>>

AppError(name, message, statusCode, data) ==
    [name |-> name, message |-> message, statusCode |-> statusCode, data |-> data]

ValidationError(message, data) == AppError("ValidationError", message, 422, data)

(***************************************************************************)
(* server/services/rpg/characterRandomizer.ts                              *)
(***************************************************************************)
\* Math.floor(Math.random() * array.length), as a 1-based index
RandomIndex(array) == 1..Len(array)

getRandomElement(array, randomIndex) == array[randomIndex]

\* the cycle reversed
malusSuitMap_Reversed == [hearts |-> "spades", clubs |-> "hearts", spades |-> "clubs"]

malusSuitMap == [hearts |-> "clubs", clubs |-> "spades", spades |-> "hearts"]

getSuitModifiers(suit) ==
    LET modifiers == [hearts |-> 0, clubs |-> 0, spades |-> 0]
        malusSuit == malusSuitMap[suit]
    IN  [[modifiers EXCEPT ![suit] = -1] EXCEPT ![malusSuit] = 1]

\* the suit skill is looked up under the first suit, whatever suit was drawn
generateCharacter_FirstSuitSkill(rSuit, rArchetype, rSkill) ==
    LET randomSuit == getRandomElement(CharacterSuit, rSuit)
        randomArchetype == getRandomElement(CharacterArchetype, rArchetype)
        randomArchetypeSkill == getRandomElement(archetypeSkills(randomArchetype), rSkill)
    IN  [suit |-> randomSuit,
         archetype |-> randomArchetype,
         damage |-> [hearts |-> FALSE, clubs |-> FALSE, spades |-> FALSE],
         modifiers |-> getSuitModifiers(randomSuit),
         suitSkill |-> suitSkills(randomArchetype, CharacterSuit[1]),
         suitCharacterization |-> suitCharacterizations(randomSuit),
         archetypeSkills |-> <<randomArchetypeSkill>>,
         archetypeCharacterization |-> archetypeCharacterizations(randomArchetype)]

\* generateCharacter(), given the three draws of the random source
generateCharacter(rSuit, rArchetype, rSkill) ==
    LET randomSuit == getRandomElement(CharacterSuit, rSuit)
        randomArchetype == getRandomElement(CharacterArchetype, rArchetype)
        randomArchetypeSkill == getRandomElement(archetypeSkills(randomArchetype), rSkill)
    IN  [suit |-> randomSuit,
         archetype |-> randomArchetype,
         damage |-> [hearts |-> FALSE, clubs |-> FALSE, spades |-> FALSE],
         modifiers |-> getSuitModifiers(randomSuit),
         suitSkill |-> suitSkills(randomArchetype, randomSuit),
         suitCharacterization |-> suitCharacterizations(randomSuit),
         archetypeSkills |-> <<randomArchetypeSkill>>,
         archetypeCharacterization |-> archetypeCharacterizations(randomArchetype)]

maxDistinct == Len(CharacterSuit) * Len(CharacterArchetype)

\* `${newCharacter.archetype}-${newCharacter.suit}`
TemplateKey(character) == <<character.archetype, "-", character.suit>>

\* generatedCharacters.has(key): the Map is kept as its values in insertion order
MapHas(map, key) == \E i \in DOMAIN map : TemplateKey(map[i]) = key

\* the character is not stored
MapSet_Dropped(map, newCharacter) == map

\* generatedCharacters.set(key, newCharacter) for a key the Map does not hold
MapSet(map, newCharacter) == Append(map, newCharacter)

\* a number, which need not be whole, is kept as its count of halves
InHalves(n) == 2 * n

IsWhole(h) == h % 2 = 0

\* the guard compares with one more than maxDistinct
ExceedsNumber_Late(h) == h > InHalves(maxDistinct + 1)

\* if (count > maxDistinct), for any number
ExceedsNumber(h) == h > InHalves(maxDistinct)

\* the loop stops at the whole part of the number
BelowNumber_Floor(map, h) == InHalves(Len(map) + 1) <= h

\* while (generatedCharacters.size < count), for any number
BelowNumber(map, h) == InHalves(Len(map)) < h

\* the guard left out
ExceedsMaxDistinct_Missing(n) == FALSE

\* if (count > maxDistinct)
ExceedsMaxDistinct(n) == ExceedsNumber(InHalves(n))

\* one iteration too many
LoopContinues_OffByOne(map, n) == Len(map) <= n

\* while (generatedCharacters.size < count)
LoopContinues(map, n) == BelowNumber(map, InHalves(n))

CannotGenerate(n) ==
    ValidationError(
        Msg("Cannot generate {0} distinct characters: only {1} unique archetype-suit combinations exist.",
            <<n, maxDistinct>>),
        NoData)

(***************************************************************************)
(* JSON values, as JSON.parse returns them                                 *)
(***************************************************************************)
JString(s) == [t |-> "string", s |-> s]

JBoolean(b) == [t |-> "boolean", b |-> b]

JArray(a) == [t |-> "array", a |-> a]

\* an object is a function from its keys to JSON values
JObject(o) == [t |-> "object", o |-> o]

\* a raw completion text: JSON text for a value, or prose
JsonText(value) == [kind |-> "json", value |-> value]

ProseText(words) == [kind |-> "prose", prose |-> words]

(***************************************************************************)
(* server/utils/parseAIJson.ts on the text itself                          *)
(***************************************************************************)
\* a text is a sequence of tokens: a fence, whitespace, punctuation, a string
\* literal, a number, or a bare word
Tok(k, s) == [k |-> k, s |-> s]

\* the three backticks that open or close a code block
Fence == Tok("fence", "fence")

Sp == Tok("ws", " ")

Nl == Tok("ws", "\n")

Str(s) == Tok("str", s)

Word(s) == Tok("word", s)

Num(s) == Tok("num", s)

P(c) == Tok("p", c)

\* a string literal whose content is looked into: the tokens between its quotes
Quoted(content) == [k |-> "quoted", content |-> content]

IsWs(t) == t.k = "ws"

JNull == [t |-> "null"]

JNumber(n) == [t |-> "number", n |-> n]

\* the string value of a literal whose content is looked into
JText(content) == [t |-> "string", content |-> content]

\* the end of the run of whitespace that starts at j (j - 1 if there is none)
WsRunEnd(text, j) ==
    CHOOSE m \in (j - 1)..Len(text) :
        /\ \A n \in j..m : IsWs(text[n])
        /\ m = Len(text) \/ ~IsWs(text[m + 1])

SkipWs(text, i) == WsRunEnd(text, i) + 1

\* the pattern of text.match() (fence, optional json tag, whitespace, newline,
\* lazy capture, fence) matched with the opening fence at i: the
\* capture starts after the last newline of the whitespace that follows the tag
\* and ends before the next fence; <<0, 0>> when there is no match at i
FenceAt(text, i) ==
    LET j == IF i + 1 <= Len(text) /\ text[i + 1] = Word("json") THEN i + 2 ELSE i + 1
        newlines == {n \in j..WsRunEnd(text, j) : text[n] = Nl}
        k == CHOOSE n \in newlines : \A m \in newlines : m <= n
        closes == {n \in (k + 1)..Len(text) : text[n] = Fence}
    IN  IF text[i] # Fence \/ newlines = {} \/ closes = {}
        THEN <<0, 0>>
        ELSE <<k + 1, (CHOOSE n \in closes : \A m \in closes : n <= m) - 1>>

\* the fence is looked for and the text is kept whole
Fenced_Kept(text) == text

\* const fenced = text.match(...); if (fenced) text = fenced[1]
Fenced(text) ==
    LET opens == {i \in DOMAIN text : FenceAt(text, i) # <<0, 0>>}
        first == CHOOSE i \in opens : \A m \in opens : i <= m
    IN  IF opens = {}
        THEN text
        ELSE SubSeq(text, FenceAt(text, first)[1], FenceAt(text, first)[2])

RECURSIVE ReplaceUndefinedFrom(_, _)
\* text.replace(/:\s*undefined\b/g, ": null") from token i on: the pattern is
\* matched against the characters, those between quotes like the others
ReplaceUndefinedFrom(text, i) ==
    IF i > Len(text)
    THEN <<>>
    ELSE IF text[i].k = "quoted"
         THEN <<Quoted(ReplaceUndefinedFrom(text[i].content, 1))>>
                  \o ReplaceUndefinedFrom(text, i + 1)
    ELSE IF /\ text[i] = P(":")
            /\ SkipWs(text, i + 1) <= Len(text)
            /\ text[SkipWs(text, i + 1)] = Word("undefined")
         THEN <<P(":"), Sp, Word("null")>> \o ReplaceUndefinedFrom(text, SkipWs(text, i + 1) + 1)
         ELSE <<text[i]>> \o ReplaceUndefinedFrom(text, i + 1)

\* the text is left as it is
ReplaceUndefined_Kept(text) == text

ReplaceUndefined(text) == ReplaceUndefinedFrom(text, 1)

\* text.trim()
Trim(text) ==
    LET solid == {i \in DOMAIN text : ~IsWs(text[i])}
    IN  IF solid = {}
        THEN <<>>
        ELSE SubSeq(text, CHOOSE i \in solid : \A m \in solid : i <= m,
                          CHOOSE i \in solid : \A m \in solid : m <= i)

NoValue == [ok |-> FALSE, value |-> JNull, next |-> 0]

RECURSIVE ParseValue(_, _), ParseMembers(_, _, _)
\* the JSON value that starts at token i0 or after whitespace, and where it ends
ParseValue(text, i0) ==
    LET i == SkipWs(text, i0)
    IN  IF i > Len(text) THEN NoValue
        ELSE IF text[i].k = "str"
             THEN [ok |-> TRUE, value |-> JString(text[i].s), next |-> i + 1]
        ELSE IF text[i].k = "quoted"
             THEN [ok |-> TRUE, value |-> JText(text[i].content), next |-> i + 1]
        ELSE IF text[i].k = "num"
             THEN [ok |-> TRUE, value |-> JNumber(text[i].s), next |-> i + 1]
        ELSE IF text[i] \in {Word("true"), Word("false")}
             THEN [ok |-> TRUE, value |-> JBoolean(text[i] = Word("true")), next |-> i + 1]
        ELSE IF text[i] = Word("null")
             THEN [ok |-> TRUE, value |-> JNull, next |-> i + 1]
        ELSE IF text[i] = P("{")
             THEN IF SkipWs(text, i + 1) <= Len(text) /\ text[SkipWs(text, i + 1)] = P("}")
                  THEN [ok |-> TRUE, value |-> JObject(<<>>), next |-> SkipWs(text, i + 1) + 1]
                  ELSE ParseMembers(text, i + 1, <<>>)
        ELSE NoValue

\* the members of an object from token i0 on, acc being those read so far
ParseMembers(text, i0, acc) ==
    LET i == SkipWs(text, i0)
        colon == SkipWs(text, i + 1)
        member == ParseValue(text, colon + 1)
        after == SkipWs(text, member.next)
        object == (text[i].s :> member.value) @@ acc
    IN  IF i > Len(text) \/ colon > Len(text) THEN NoValue
        ELSE IF text[i].k # "str" \/ text[colon] # P(":") THEN NoValue
        ELSE IF ~member.ok \/ after > Len(text) THEN NoValue
        ELSE IF text[after] = P("}")
             THEN [ok |-> TRUE, value |-> JObject(object), next |-> after + 1]
        ELSE IF text[after] = P(",") THEN ParseMembers(text, after + 1, object)
        ELSE NoValue

\* JSON.parse(text): the value, or a SyntaxError
JSONParse(text) ==
    LET parsed == ParseValue(text, 1)
    IN  IF parsed.ok /\ SkipWs(text, parsed.next) > Len(text)
        THEN [ok |-> TRUE, value |-> parsed.value]
        ELSE [ok |-> FALSE]

RECURSIVE DropTrailingCommasFrom(_, _)
\* the text from token i on without the commas that a closing brace follows
DropTrailingCommasFrom(text, i) ==
    IF i > Len(text)
    THEN <<>>
    ELSE IF /\ text[i] = P(",")
            /\ SkipWs(text, i + 1) <= Len(text)
            /\ text[SkipWs(text, i + 1)] = P("}")
         THEN DropTrailingCommasFrom(text, i + 1)
         ELSE <<text[i]>> \o DropTrailingCommasFrom(text, i + 1)

\* jsonrepair(text), the outcomes it can have: valid JSON is returned as it is,
\* trailing commas are dropped, bare words are either quoted as one string or
\* refused, and anything else throws a JSONRepairError
jsonrepair(text) ==
    IF JSONParse(text).ok
    THEN {[ok |-> TRUE, text |-> text]}
    ELSE IF JSONParse(DropTrailingCommasFrom(text, 1)).ok
         THEN {[ok |-> TRUE, text |-> DropTrailingCommasFrom(text, 1)]}
    ELSE IF text # <<>> /\ \A i \in DOMAIN text : text[i].k \in {"word", "ws"}
         THEN {[ok |-> TRUE, text |-> <<Str("bare words")>>], [ok |-> FALSE]}
    ELSE {[ok |-> FALSE]}

\* !parsedJson || typeof parsedJson !== "object"
Falsy_Never(value) == FALSE

Falsy(value) == value.t \notin {"object", "array"}

\* what parseAIJson returns once jsonrepair had the given outcome
ParsedWith(outcome) ==
    IF ~outcome.ok
    THEN err(Msg("Failed to parse AI JSON response", <<>>))
    ELSE IF ~JSONParse(outcome.text).ok
         THEN err(Msg("Failed to parse AI JSON response", <<>>))
         ELSE IF Falsy(JSONParse(outcome.text).value)
              THEN err(Msg("Parsed JSON is falsy", <<>>))
              ELSE ok(JSONParse(outcome.text).value)

\* parseAIJson(text): every result it can have, one per outcome of jsonrepair
parseAIJsonResults(text) ==
    {ParsedWith(outcome) : outcome \in jsonrepair(Trim(ReplaceUndefined(Fenced(text))))}

\* a raw completion text given as it was written
WrittenText(text) == [kind |-> "text", text |-> text]

(***************************************************************************)
(* server/utils/parseAIJson.ts (the Result variant)                        *)
(***************************************************************************)
\* JSON.parse(jsonrepair(text)) gives an object (or array) only for JSON text
\* of one; prose is repaired to a string at best
parseAIJson(raw) ==
    IF raw.kind = "text"
    THEN CHOOSE result \in parseAIJsonResults(raw.text) : TRUE
    ELSE IF raw.kind # "json"
         THEN err(Msg("Failed to parse AI JSON response", <<>>))
         ELSE IF raw.value.t \notin {"object", "array"}
              THEN err(Msg("Parsed JSON is falsy", <<>>))
              ELSE ok(raw.value)

(***************************************************************************)
(* shared/types/campaign.ts and server/utils/validate.ts                   *)
(***************************************************************************)
\* Object.values(GenreGroups).flat()
allGenres ==
    {"highFantasy", "darkFantasy", "swordAndSorcery", "mythicFantasy",
     "scienceFantasy", "cyberpunk", "spaceOpera", "postApocalyptic",
     "gothicHorror", "cosmicHorror", "survivalHorror",
     "urbanFantasy", "superhero", "alternateHistory", "conspiracyThriller",
     "wuxia", "isekai", "weirdWest",
     "steampunk", "dieselpunk", "biopunk", "clockpunk"}

\* the supported locales
Locales == {"en", "it"}

LocaleNames(language) == <<"LocaleNames", language>>

\* z.string()
IsString(v) == v.t = "string"

Has(o, key) == key \in DOMAIN o

\* an optional key: absent, or of the given shape
Optional(o, key, shape(_)) == Has(o, key) => shape(o[key])

\* an item of any shape
characterItemSchema_Any(v) == TRUE

\* z.object({ name: generatedText, concealed: z.boolean() })
characterItemSchema(v) ==
    /\ v.t = "object"
    /\ Has(v.o, "name") /\ IsString(v.o.name)
    /\ Has(v.o, "concealed") /\ v.o.concealed.t = "boolean"

identityKeys == {"name", "pronouns", "concept", "weapon", "instrument"}

\* characterIdentitySchema.safeParse(v).success
characterIdentitySchema(v) ==
    /\ v.t = "object"
    /\ Has(v.o, "name") /\ IsString(v.o.name)
    /\ Optional(v.o, "pronouns", IsString)
    /\ Optional(v.o, "concept", IsString)
    /\ Optional(v.o, "weapon", characterItemSchema)
    /\ Optional(v.o, "instrument", characterItemSchema)

\* result.data of a z.object: the keys of the schema, the others stripped
StripUnknown(v, keys) == [k \in (DOMAIN v.o) \cap keys |-> v.o[k]]

characterIdentityData(v) == StripUnknown(v, identityKeys)

\* characterSkillSchema, on a skill of the game-data tables
characterSkillSchema(skill) ==
    /\ Has(skill, "name") /\ Has(skill, "description")
    /\ Has(skill, "uses") => (Has(skill.uses, "usesLeft") /\ Has(skill.uses, "maxUses"))

\* suitRecord(valueSchema)
suitRecord(record, values) ==
    /\ Range(CharacterSuit) \subseteq DOMAIN record
    /\ \A s \in Range(CharacterSuit) : record[s] \in values

\* characterSheetSchema.safeParse(sheet).success
characterSheetSchema(sheet) ==
    /\ Has(sheet, "archetype") /\ sheet.archetype \in Range(CharacterArchetype)
    /\ Has(sheet, "suit") /\ sheet.suit \in Range(CharacterSuit)
    /\ Has(sheet, "damage") /\ suitRecord(sheet.damage, BOOLEAN)
    /\ Has(sheet, "modifiers") /\ suitRecord(sheet.modifiers, -2..2)
    /\ Has(sheet, "suitSkill") /\ characterSkillSchema(sheet.suitSkill)
    /\ Has(sheet, "characterIdentity")
    /\ characterIdentitySchema(JObject(sheet.characterIdentity))
    /\ Has(sheet, "archetypeSkills")
    /\ \A i \in DOMAIN sheet.archetypeSkills : characterSkillSchema(sheet.archetypeSkills[i])

\* settingSchema: z.array(genreSchema).min(1)
settingSchema(setting) ==
    /\ Len(setting) >= 1
    /\ \A i \in DOMAIN setting : setting[i] \in allGenres

Issue(field) == [path |-> field]

IssuesOf(checks) ==
    LET failed(c) == ~c.passes
    IN  [i \in 1..Len(SelectSeq(checks, failed)) |-> Issue(SelectSeq(checks, failed)[i].field)]

SafeParse(checks, data) ==
    IF IssuesOf(checks) = <<>>
    THEN [success |-> TRUE, data |-> data]
    ELSE [success |-> FALSE, issues |-> IssuesOf(checks)]

\* one more player is let through
playerCountNumber_Ten(h) == IsWhole(h) /\ h >= InHalves(1) /\ h <= InHalves(10)

\* z.int().min(1).max(9), for any number
playerCountNumber(h) == IsWhole(h) /\ h >= InHalves(1) /\ h <= InHalves(9)

\* z.int().min(1).max(9)
playerCountSchema(n) == n \in Int /\ playerCountNumber(InHalves(n))

\* the three keys of charactersRequestSchema, playerCount being any number
charactersRequestKeys(h, setting, language) ==
    <<[field |-> "playerCount", passes |-> playerCountNumber(h)],
      [field |-> "setting", passes |-> settingSchema(setting)],
      [field |-> "language", passes |-> language \in Locales]>>

\* charactersRequestSchema.safeParse(b)
charactersRequestSchema(b) ==
    SafeParse(<<[field |-> "playerCount", passes |-> playerCountSchema(b.playerCount)],
                [field |-> "setting", passes |-> settingSchema(b.setting)],
                [field |-> "language", passes |-> b.language \in Locales]>>, b)

\* scriptRequestSchema.safeParse(b)
scriptRequestSchema(b) ==
    SafeParse(<<[field |-> "characters",
                 passes |-> /\ Len(b.characters) >= 1
                            /\ \A i \in DOMAIN b.characters : characterSheetSchema(b.characters[i])],
                [field |-> "setting", passes |-> settingSchema(b.setting)],
                [field |-> "language", passes |-> b.language \in Locales]>>, b)

targetSchema(v) ==
    /\ v.t = "object"
    /\ Has(v.o, "name") /\ IsString(v.o.name)
    /\ Has(v.o, "description") /\ IsString(v.o.description)

weakPointSchema(v) ==
    /\ v.t = "object"
    /\ Has(v.o, "name") /\ IsString(v.o.name)
    /\ Has(v.o, "role") /\ IsString(v.o.role)

weakPointCount == 10

\* gameMasterScriptSchema.safeParse(v).success
gameMasterScriptSchema(v) ==
    /\ v.t = "object"
    /\ Has(v.o, "hook") /\ IsString(v.o.hook)
    /\ Has(v.o, "targets") /\ v.o.targets.t = "object"
    /\ \A a \in Range(CharacterArchetype) :
          Has(v.o.targets.o, a) /\ targetSchema(v.o.targets.o[a])
    /\ Has(v.o, "weakPoints") /\ v.o.weakPoints.t = "array"
    /\ Len(v.o.weakPoints.a) = weakPointCount
    /\ \A i \in DOMAIN v.o.weakPoints.a : weakPointSchema(v.o.weakPoints.a[i])
    /\ Has(v.o, "scenes") /\ v.o.scenes.t = "array"
    /\ \A i \in DOMAIN v.o.scenes.a : IsString(v.o.scenes.a[i])
    /\ Has(v.o, "centralTension") /\ IsString(v.o.centralTension)
    /\ Has(v.o, "plot") /\ IsString(v.o.plot)

scriptKeys == {"hook", "targets", "weakPoints", "scenes", "centralTension", "plot"}

gameMasterScriptData(v) == StripUnknown(v, scriptKeys)

\* result.error.issues of characterIdentitySchema.safeParse(v): the paths that failed
identityIssues(v) ==
    IF v.t # "object"
    THEN <<Issue("")>>
    ELSE IssuesOf(<<[field |-> "name", passes |-> Has(v.o, "name") /\ IsString(v.o.name)],
                    [field |-> "pronouns", passes |-> Optional(v.o, "pronouns", IsString)],
                    [field |-> "concept", passes |-> Optional(v.o, "concept", IsString)],
                    [field |-> "weapon", passes |-> Optional(v.o, "weapon", characterItemSchema)],
                    [field |-> "instrument",
                     passes |-> Optional(v.o, "instrument", characterItemSchema)]>>)

\* result.error.issues of gameMasterScriptSchema.safeParse(v): the schema failed as a whole
scriptIssues(v) == IF gameMasterScriptSchema(v) THEN <<>> ELSE <<Issue("")>>

(***************************************************************************)
(* server/utils/errors.ts: the helpers                                     *)
(***************************************************************************)
\* the error built as a Response error
AIProviderError_AsResponse(message) == AppError("AIResponseError", message, 502, NoData)

AIProviderError(message) == AppError("AIProviderError", message, 502, NoData)

AIResponseError(message) == AppError("AIResponseError", message, 502, NoData)

\* withAIProvider(fn) when the promise of fn() rejects
withAIProviderCaught == err(AIProviderError(Msg("AI service error", <<>>)))

\* the raw text is put into the message
UnparseableResponse_Echo(raw) ==
    AIResponseError(Msg("AI returned an unparseable response", <<raw>>))

\* the error of a text that did not parse: the parse error is its cause only
UnparseableResponse(raw) ==
    AIResponseError(Msg("AI returned an unparseable response", <<>>))

\* the schema failure is reported as a server fault
InvalidResponse_ServerFault(value) ==
    AppError("AIResponseError", Msg("AI returned an invalid response", <<>>), 500, NoData)

\* the error of a parsed value that failed the schema
InvalidResponse(value) ==
    AIResponseError(Msg("AI returned an invalid response", <<>>))

\* parseAndValidateAIResponse(raw, schema, label), data being result.data
parseAndValidateAIResponse(raw, schema(_), data(_)) ==
    LET parsed == parseAIJson(raw)
    IN  IF ~parsed.ok
        THEN err(UnparseableResponse(raw))
        ELSE IF ~schema(parsed.value)
             THEN err(InvalidResponse(parsed.value))
             ELSE ok(data(parsed.value))

\* the raw text is left out of the line
LogUnparseable_NoRaw(label, raw) ==
    [label |-> label, text |-> "Failed to parse AI JSON. Raw text:"]

\* console.error(`[${label}] Failed to parse AI JSON. Raw text:`, raw)
LogUnparseable(label, raw) ==
    [label |-> label, text |-> "Failed to parse AI JSON. Raw text:", raw |-> raw]

\* console.error(`[${label}] AI output failed schema validation:`, result.error.issues)
LogInvalid(label, issues) ==
    [label |-> label, text |-> "AI output failed schema validation:", issues |-> issues]

\* what parseAndValidateAIResponse(raw, schema, label) writes with console.error,
\* issues being result.error.issues
parseAndValidateAIResponseLogs(raw, issues(_), label) ==
    LET parsed == parseAIJson(raw)
    IN  IF ~parsed.ok
        THEN {LogUnparseable(label, raw)}
        ELSE IF issues(parsed.value) # <<>>
             THEN {LogInvalid(label, issues(parsed.value))}
             ELSE {}

\* toHttpError(error): the H3 error thrown to the transport
toHttpError(error) ==
    [kind |-> "error",
     statusCode |-> error.statusCode,
     statusMessage |-> error.message,
     data |-> error.data]

(***************************************************************************)
(* server/services/ai/index.ts                                             *)
(***************************************************************************)
\* Object.values(AIProviderName)
AIProviderName == <<"anthropic", "ollama", "openai">>

\* validateAiConfig(config); an absent setting is the empty string. The names of
\* settings and of environment variables a message spells out are kept with the
\* values interpolated into it
validateAiConfig(config) ==
    IF config.provider = ""
    THEN err(AIProviderError(Msg("AI provider is not configured. Set {0} in nuxt.config.ts.",
                                 <<"runtimeConfig.ai.provider">>)))
    ELSE IF config.provider \notin Range(AIProviderName)
    THEN err(AIProviderError(Msg("Invalid AI provider {0}. Valid options are: {1}, {2}, {3}. Set {4} in nuxt.config.ts.",
                                 <<config.provider>> \o AIProviderName
                                     \o <<"runtimeConfig.ai.provider">>)))
    ELSE IF config.provider = "ollama" /\ config.ollamaHost = ""
    THEN err(AIProviderError(Msg("AI provider {0} is configured but no host was provided. Set {1} via {2} environment variable.",
                                 <<"ollama", "runtimeConfig.ai.ollamaHost", "NUXT_AI_OLLAMA_HOST">>)))
    ELSE IF config.apiKey = "" /\ config.provider # "ollama"
    THEN err(AIProviderError(Msg("AI provider {0} is configured but no API key was provided. Set {1} via {2} environment variable.",
                                 <<config.provider, "runtimeConfig.ai.apiKey", "NUXT_AI_API_KEY">>)))
    ELSE ok(config)

\* [...providerRegistry.keys()], or "(none)"
Available(registry) ==
    IF registry = {}
    THEN <<"(none)">>
    ELSE SelectSeq(AIProviderName, LAMBDA name : name \in registry)

\* the factory is dropped from the registry once it was looked up
providerRegistryGet_Delete(registry, name) == registry \ {name}

\* providerRegistry.get(name) leaves the registry as it is
providerRegistryGet(registry, name) == registry

\* new AnthropicProvider(config), new OllamaProvider(config), new OpenAIProvider(config):
\* the instance a factory builds, known by the name it is registered under
Factory(name, config) == [provider |-> name]

\* the validated configuration is returned without a look at the registry
getAIProvider_Unregistered(config, registry) ==
    IF validateAiConfig(config).ok
    THEN ok(Factory(config.provider, config))
    ELSE validateAiConfig(config)

\* getAIProvider() under runtime configuration `config`, with the registry given;
\* the provider a factory builds is named by the configuration it was built from
getAIProvider(config, registry) ==
    LET validated == validateAiConfig(config)
    IN  IF ~validated.ok
        THEN validated
        ELSE IF validated.value.provider \notin registry
             THEN err(AIProviderError(Msg("AI provider {0} is not registered. Available providers: {1}. Ensure the provider module is imported.",
                                          <<validated.value.provider>> \o Available(registry))))
             ELSE ok(Factory(validated.value.provider, validated.value))

\* the factories getAIProvider() invokes, each with its argument
getAIProviderInvokes(config, registry) ==
    IF getAIProvider(config, registry).ok
    THEN <<[factory |-> config.provider, config |-> validateAiConfig(config).value]>>
    ELSE <<>>

(***************************************************************************)
(* server/services/ai/prompts                                              *)
(***************************************************************************)
\* the user text is kept as the values interpolated into it, in order
buildCharacterPrompt(template, setting, language) ==
    [system |-> "character",
     user |-> <<template.archetype, template.archetypeCharacterization,
                template.suit, template.suitCharacterization,
                setting, LocaleNames(language)>>]

characterSummary(c) ==
    <<c.characterIdentity.name,
      IF Has(c.characterIdentity, "concept") THEN c.characterIdentity.concept ELSE JString("N/A")>>

buildScriptPrompt(characters, setting, language) ==
    [system |-> "script",
     user |-> <<[i \in DOMAIN characters |-> characterSummary(characters[i])],
                setting, LocaleNames(language)>>]

(***************************************************************************)
(* server/api/campaign/characters.post.ts: the merge                       *)
(***************************************************************************)
\* the sheet as a copy of the whole template
MergeSheet_Spread(template, identity) ==
    [archetype |-> template.archetype,
     suit |-> template.suit,
     damage |-> template.damage,
     modifiers |-> template.modifiers,
     suitSkill |-> template.suitSkill,
     suitCharacterization |-> template.suitCharacterization,
     archetypeSkills |-> template.archetypeSkills,
     archetypeCharacterization |-> template.archetypeCharacterization,
     characterIdentity |-> identity]

MergeSheet(template, identity) ==
    [archetype |-> template.archetype,
     suit |-> template.suit,
     damage |-> template.damage,
     modifiers |-> template.modifiers,
     suitSkill |-> template.suitSkill,
     archetypeSkills |-> template.archetypeSkills,
     characterIdentity |-> identity]

(***************************************************************************)
(* Inputs                                                                  *)
(***************************************************************************)
\* the identity of the end-to-end scenario, and a minimal one
IdentityFull ==
    JObject([name |-> JString("Evelyn Cross"),
             pronouns |-> JString("she/her"),
             concept |-> JString("A fixer"),
             weapon |-> JObject([name |-> JString("Stiletto"), concealed |-> JBoolean(TRUE)])])

IdentityNameOnly == JObject([name |-> JString("Alice")])

\* an identity without the required name
IdentityNoName == JObject([pronouns |-> JString("they/them")])

\* a weapon that is a plain string, and one without concealed
IdentityWeaponString == JObject([name |-> JString("Bob"), weapon |-> JString("sword")])

IdentityWeaponNoConcealed ==
    JObject([name |-> JString("Bob"), weapon |-> JObject([name |-> JString("sword")])])

\* an instrument of the shape of an item
IdentityInstrument ==
    JObject([name |-> JString("Carol"),
             instrument |-> JObject([name |-> JString("Lute"), concealed |-> JBoolean(FALSE)])])

\* an instrument that is a plain string, and an identity with both items
IdentityInstrumentString == JObject([name |-> JString("Carol"), instrument |-> JString("lute")])

IdentityBothItems ==
    JObject([name |-> JString("Dave"),
             weapon |-> JObject([name |-> JString("Knife"), concealed |-> JBoolean(TRUE)]),
             instrument |-> JObject([name |-> JString("Drum"), concealed |-> JBoolean(FALSE)])])

IdentityPayloads ==
    {IdentityFull, IdentityNameOnly, IdentityNoName, IdentityWeaponString,
     IdentityWeaponNoConcealed, IdentityInstrument, IdentityInstrumentString,
     IdentityBothItems}

\* what complete() may resolve with in a generate-characters request
CharacterReplies ==
    {JsonText(IdentityFull), JsonText(IdentityNameOnly), JsonText(IdentityNoName),
     ProseText("I cannot generate characters")}

WeakPoints(n) ==
    JArray([i \in 1..n |-> JObject([name |-> JString("Informant"), role |-> JString("Clerk")])])

Target == JObject([name |-> JString("Baron"), description |-> JString("Ruthless")])

ScriptWith(n) ==
    JObject([hook |-> JString("hook"),
             targets |-> JObject([king |-> Target, queen |-> Target, jack |-> Target]),
             weakPoints |-> WeakPoints(n),
             scenes |-> JArray(<<JString("one"), JString("two"), JString("three")>>),
             centralTension |-> JString("tension"),
             plot |-> JString("plot")])

\* what complete() may resolve with in a generate-script request
ScriptReplies ==
    {JsonText(ScriptWith(weakPointCount)), JsonText(ScriptWith(weakPointCount - 1)),
     JsonText(ScriptWith(weakPointCount + 1)), ProseText("I cannot generate a script")}

\* texts a provider may resolve with, those of both endpoints among them
RawTexts ==
    CharacterReplies \cup ScriptReplies
        \cup {JsonText(IdentityWeaponString), JsonText(IdentityWeaponNoConcealed),
              JsonText(IdentityInstrument), JsonText(JString("just a string")),
              ProseText("Sorry, no")}

PlayerCounts == (0..MaxPlayers) \cup {maxDistinct + 1}

CharactersBodies ==
    [playerCount : PlayerCounts,
     setting : {<<>>, <<"cyberpunk">>, <<"notAGenre">>},
     language : {"en", "fr"}]

SheetOf(identity) == MergeSheet(generateCharacter(1, 1, 1), identity.o)

ScriptBodies ==
    [characters : {<<>>, <<SheetOf(IdentityFull)>>, <<SheetOf(IdentityNoName)>>,
                   <<SheetOf(IdentityFull), SheetOf(IdentityNameOnly)>>},
     setting : {<<>>, <<"cyberpunk">>},
     language : {"en", "fr"}]

\* runtimeConfig.ai as useRuntimeConfig() may return it
Configs ==
    [provider : {"", "bogus", "anthropic", "ollama", "openai"},
     apiKey : {"", "sk-test"},
     ollamaHost : {"", "http://localhost:11434"}]

(***************************************************************************)
(* State                                                                   *)
(***************************************************************************)
VARIABLES
    op,                  \* the operation running: "none", "randomizer", "characters", "script"
    pc,                  \* where it is
    count,               \* generateRandomDistinctCharacters: its argument
    generatedCharacters, \* generateRandomDistinctCharacters: the Map, in insertion order
    draws,               \* generateCharacter() calls made by the current call (saturating)
    randResult,          \* what the direct call returned
    providerRegistry,    \* the names a factory is registered under
    body,                \* the request body of the handler
    templates,           \* characters handler: templates.value
    providerCalls,       \* getAIProvider() calls made by the handler
    provider,            \* the handler's provider.value
    tasks,               \* one per complete() call issued: its promise and what settled it
    results,             \* Promise.all: the values of the fulfilled promises, by slot
    response,            \* what the handler's promise settled with
    thrown,              \* the failure given to toHttpError that settled it, and its stage
    console,             \* the lines written with console.error
    other,               \* a generate-script request running beside the one above: its frame
    call                 \* a function called on its own: its arguments and what it returned

randVars == <<count, generatedCharacters, draws, randResult>>

reqVars == <<body, templates, providerCalls, provider, tasks, results, response, thrown,
             console>>

vars == <<op, pc, count, generatedCharacters, draws, randResult, providerRegistry,
          body, templates, providerCalls, provider, tasks, results, response, thrown,
          console, other, call>>

sideVars == <<other, call>>

Counts == (0..MaxCount) \cup ((maxDistinct + 1)..(maxDistinct + OverCount))

Bump(n) == IF n < MaxDraws THEN n + 1 ELSE MaxDraws

NoBody == [playerCount |-> 0, setting |-> <<>>, language |-> ""]

NoProvider == [provider |-> ""]

NoResponse == [kind |-> "none"]

NoError == AppError("none", Msg("", <<>>), 0, NoData)

NoResult == err(NoError)

NoThrown == [stage |-> "none", error |-> NoError]

\* an empty slot of Promise.all's values
Empty == [empty |-> TRUE]

NoReply == [kind |-> "none"]

Rejection == [kind |-> "rejection"]

\* registerProvider(name, factory)
registerProvider(registry, name) == registry \cup {name}

NoOther == [pc |-> "idle"]

NoCall == [fn |-> "none"]

\* the state of a server that serves no request yet
InitFrame ==
    /\ op = "none"
    /\ pc = "idle"
    /\ count = 0
    /\ generatedCharacters = <<>>
    /\ draws = 0
    /\ randResult = NoResult
    /\ body = NoBody
    /\ templates = <<>>
    /\ providerCalls = 0
    /\ provider = NoProvider
    /\ tasks = <<>>
    /\ results = <<>>
    /\ response = NoResponse
    /\ thrown = NoThrown
    /\ console = {}
    /\ other = NoOther
    /\ call = NoCall

\* the state once the modules are loaded: the three registrations of index.ts
Init ==
    /\ InitFrame
    /\ providerRegistry =
          registerProvider(registerProvider(registerProvider({}, "anthropic"), "ollama"), "openai")

(***************************************************************************)
(* generateRandomDistinctCharacters                                        *)
(***************************************************************************)
\* a test or another caller calls generateRandomDistinctCharacters(n):
\* the guard, then the empty Map
CallRandomizer(n) ==
    /\ pc = "idle"
    /\ op' = "randomizer"
    /\ count' = n
    /\ generatedCharacters' = <<>>
    /\ draws' = 0
    /\ IF ExceedsMaxDistinct(n)
       THEN /\ pc' = "returned"
            /\ randResult' = err(CannotGenerate(n))
       ELSE /\ pc' = "loop"
            /\ randResult' = NoResult
    /\ UNCHANGED <<providerRegistry, sideVars, reqVars>>

\* one iteration whose character has a pairing the Map does not hold yet
LoopFresh(rSuit, rArchetype, rSkill) ==
    LET newCharacter == generateCharacter(rSuit, rArchetype, rSkill)
    IN  /\ pc = "loop"
        /\ LoopContinues(generatedCharacters, count)
        /\ ~MapHas(generatedCharacters, TemplateKey(newCharacter))
        /\ generatedCharacters' = MapSet(generatedCharacters, newCharacter)
        /\ draws' = Bump(draws)
        /\ UNCHANGED <<op, pc, count, randResult, providerRegistry, sideVars, reqVars>>

\* one iteration whose character repeats a pairing: it is dropped
LoopDuplicate(rSuit, rArchetype, rSkill) ==
    LET newCharacter == generateCharacter(rSuit, rArchetype, rSkill)
    IN  /\ pc = "loop"
        /\ LoopContinues(generatedCharacters, count)
        /\ MapHas(generatedCharacters, TemplateKey(newCharacter))
        /\ draws' = Bump(draws)
        /\ UNCHANGED <<op, pc, count, generatedCharacters, randResult, providerRegistry, sideVars, reqVars>>

\* the loop of a direct call ends: return ok(Array.from(generatedCharacters.values()))
RandomizerReturn ==
    /\ pc = "loop"
    /\ op = "randomizer"
    /\ ~LoopContinues(generatedCharacters, count)
    /\ pc' = "returned"
    /\ randResult' = ok(generatedCharacters)
    /\ UNCHANGED <<op, count, generatedCharacters, draws, providerRegistry, sideVars, reqVars>>

(***************************************************************************)
(* POST /api/campaign/characters (the Result variant)                      *)
(***************************************************************************)
\* toHttpError(error) ends the handler
Throw(stage, error) ==
    /\ response' = toHttpError(error)
    /\ thrown' = [stage |-> stage, error |-> error]

\* provider.complete(prompt) is invoked: once
IssueComplete(prompt) ==
    [status |-> "pending", calls |-> 1, prompt |-> prompt,
     reply |-> NoReply, stage |-> "none", error |-> NoError]

\* the handler up to the sampling loop: the request schema, then the guard of
\* generateRandomDistinctCharacters(playerCount)
CharactersEntry(b) ==
    LET parsed == charactersRequestSchema(b)
    IN  /\ pc = "idle"
        /\ op' = "characters"
        /\ body' = b
        /\ IF ~parsed.success
           THEN /\ pc' = "responded"
                /\ Throw("request", ValidationError(Msg("Validation failed", <<>>), parsed.issues))
                /\ UNCHANGED randVars
           ELSE IF ExceedsMaxDistinct(parsed.data.playerCount)
                THEN /\ pc' = "responded"
                     /\ Throw("randomizer", CannotGenerate(parsed.data.playerCount))
                     /\ UNCHANGED randVars
                ELSE /\ pc' = "loop"
                     /\ count' = parsed.data.playerCount
                     /\ generatedCharacters' = <<>>
                     /\ draws' = 0
                     /\ UNCHANGED <<randResult, response, thrown>>
        /\ UNCHANGED <<providerRegistry, sideVars, templates, tasks, results, console>>

\* the provider is resolved before the request is validated
PostCharacters_ProviderFirst(b) ==
    /\ CharactersEntry(b)
    /\ providerCalls' = providerCalls + 1
    /\ \E config \in Configs :
          /\ getAIProvider(config, providerRegistry).ok
          /\ provider' = getAIProvider(config, providerRegistry).value

\* a generate-characters request arrives: nothing of the provider is touched
\* before the templates are there
PostCharacters(b) ==
    /\ CharactersEntry(b)
    /\ UNCHANGED <<providerCalls, provider>>

\* the handler from the return of the loop to the fan-out: getAIProvider(), then
\* every template's prompt is built and its complete() call issued
CharactersFanOut(config) ==
    LET resolved == getAIProvider(config, providerRegistry)
    IN  /\ pc = "loop"
        /\ op = "characters"
        /\ ~LoopContinues(generatedCharacters, count)
        /\ templates' = generatedCharacters
        /\ count' = 0
        /\ generatedCharacters' = <<>>
        /\ draws' = 0
        /\ providerCalls' = providerCalls + 1
        /\ IF ~resolved.ok
           THEN /\ pc' = "responded"
                /\ Throw("provider", resolved.error)
                /\ UNCHANGED <<provider, tasks, results>>
           ELSE /\ pc' = "fanout"
                /\ provider' = resolved.value
                /\ tasks' = [i \in DOMAIN generatedCharacters |->
                               IssueComplete(buildCharacterPrompt(generatedCharacters[i],
                                                                  body.setting, body.language))]
                /\ results' = [i \in DOMAIN generatedCharacters |-> Empty]
                /\ UNCHANGED <<response, thrown>>
        /\ providerRegistry' = providerRegistryGet(providerRegistry, config.provider)
        /\ UNCHANGED <<op, randResult, sideVars, body, console>>

\* the slot is the number of promises fulfilled so far plus one
PromiseAllSlot_ByArrival(i) ==
    Cardinality({j \in DOMAIN tasks : tasks[j].status = "fulfilled"}) + 1

\* Promise.all keeps the value of the i-th promise in slot i
PromiseAllSlot(i) == i

\* every promise is awaited and the fulfilled values are returned
PromiseAll_Settled(ts, rs, i) ==
    IF \A j \in DOMAIN ts : ts[j].status # "pending"
    THEN [response |-> [kind |-> "ok",
                        body |-> SelectSeq(rs, LAMBDA r : r # Empty)],
          thrown |-> thrown]
    ELSE [response |-> response, thrown |-> thrown]

\* the rejection of the lowest index is the one reported, whenever it arrives
PromiseAll_LowestIndex(ts, rs, i) ==
    LET failed == {j \in DOMAIN ts : ts[j].status = "rejected"}
        lowest == CHOOSE j \in failed : \A m \in failed : j <= m
    IN  IF failed # {}
        THEN [response |-> toHttpError(ts[lowest].error),
              thrown |-> [stage |-> ts[lowest].stage, error |-> ts[lowest].error]]
        ELSE IF \A j \in DOMAIN ts : ts[j].status = "fulfilled"
             THEN [response |-> [kind |-> "ok", body |-> rs], thrown |-> thrown]
             ELSE [response |-> response, thrown |-> thrown]

\* Promise.all after promise i settled, ts and rs being the promises and the
\* values then: it rejects with the first rejection and fulfils once all have
PromiseAll(ts, rs, i) ==
    IF response.kind # "none"
    THEN [response |-> response, thrown |-> thrown]
    ELSE IF ts[i].status = "rejected"
         THEN [response |-> toHttpError(ts[i].error),
               thrown |-> [stage |-> ts[i].stage, error |-> ts[i].error]]
         ELSE IF \A j \in DOMAIN ts : ts[j].status = "fulfilled"
              THEN [response |-> [kind |-> "ok", body |-> rs], thrown |-> thrown]
              ELSE [response |-> response, thrown |-> thrown]

\* the failed call is issued again
Rejected_Retried(task) == [task EXCEPT !.calls = @ + 1]

\* the task whose complete() call rejected: withAIProvider gives the Provider
\* error and toHttpError throws it
Rejected(task) ==
    [task EXCEPT !.status = "rejected", !.reply = Rejection,
                 !.stage = "complete", !.error = withAIProviderCaught.error]

\* the task whose complete() call resolved with text that gives no valid value
Invalid(task, raw, failure) ==
    [task EXCEPT !.status = "rejected", !.reply = raw,
                 !.stage = IF parseAIJson(raw).ok THEN "schema" ELSE "parse",
                 !.error = failure.error]

Fulfilled(task, raw) == [task EXCEPT !.status = "fulfilled", !.reply = raw]

\* the complete() call of template i rejects
CompleteRejects(i) ==
    /\ pc = "fanout"
    /\ i \in DOMAIN tasks
    /\ tasks[i].status = "pending"
    /\ tasks' = [tasks EXCEPT ![i] = Rejected(tasks[i])]
    /\ response' = PromiseAll(tasks', results, i).response
    /\ thrown' = PromiseAll(tasks', results, i).thrown
    /\ UNCHANGED <<op, pc, randVars, providerRegistry, sideVars, body, templates, providerCalls,
                   provider, results, console>>

\* the complete() call of template i resolves with raw: the identity is parsed,
\* validated and merged with the template
CompleteResolves(i, raw) ==
    LET identity == parseAndValidateAIResponse(raw, characterIdentitySchema, characterIdentityData)
    IN  /\ pc = "fanout"
        /\ i \in DOMAIN tasks
        /\ tasks[i].status = "pending"
        /\ IF identity.ok
           THEN /\ results' = [results EXCEPT
                                 ![PromiseAllSlot(i)] = MergeSheet(templates[i], identity.value)]
                /\ tasks' = [tasks EXCEPT ![i] = Fulfilled(tasks[i], raw)]
           ELSE /\ results' = results
                /\ tasks' = [tasks EXCEPT ![i] = Invalid(tasks[i], raw, identity)]
        /\ console' = console \cup parseAndValidateAIResponseLogs(raw, identityIssues, "characters")
        /\ response' = PromiseAll(tasks', results', i).response
        /\ thrown' = PromiseAll(tasks', results', i).thrown
        /\ UNCHANGED <<op, pc, randVars, providerRegistry, sideVars, body, templates, providerCalls,
                       provider>>

(***************************************************************************)
(* POST /api/campaign/script (the Result variant)                          *)
(***************************************************************************)
\* the handler up to its await: the request schema, getAIProvider(), the prompt
\* and the one complete() call
PostScript(b, config) ==
    LET parsed == scriptRequestSchema(b)
        resolved == getAIProvider(config, providerRegistry)
    IN  /\ pc = "idle"
        /\ op' = "script"
        /\ body' = b
        /\ IF ~parsed.success
           THEN /\ pc' = "responded"
                /\ Throw("request", ValidationError(Msg("Validation failed", <<>>), parsed.issues))
                /\ UNCHANGED <<providerCalls, provider, tasks>>
           ELSE /\ providerCalls' = providerCalls + 1
                /\ IF ~resolved.ok
                   THEN /\ pc' = "responded"
                        /\ Throw("provider", resolved.error)
                        /\ UNCHANGED <<provider, tasks>>
                   ELSE /\ pc' = "await"
                        /\ provider' = resolved.value
                        /\ tasks' = <<IssueComplete(buildScriptPrompt(parsed.data.characters,
                                                                      parsed.data.setting,
                                                                      parsed.data.language))>>
                        /\ UNCHANGED <<response, thrown>>
        /\ providerRegistry' = IF parsed.success
                               THEN providerRegistryGet(providerRegistry, config.provider)
                               ELSE providerRegistry
        /\ UNCHANGED <<randVars, sideVars, templates, results, console>>

\* the complete() call of the script rejects
ScriptRejects ==
    /\ pc = "await"
    /\ tasks[1].status = "pending"
    /\ tasks' = <<Rejected(tasks[1])>>
    /\ IF tasks'[1].status = "rejected"
       THEN pc' = "responded" /\ Throw(tasks'[1].stage, tasks'[1].error)
       ELSE UNCHANGED <<pc, response, thrown>>
    /\ UNCHANGED <<op, randVars, providerRegistry, sideVars, body, templates, providerCalls,
                   provider, results, console>>

\* the complete() call of the script resolves with raw
ScriptResolves(raw) ==
    LET script == parseAndValidateAIResponse(raw, gameMasterScriptSchema, gameMasterScriptData)
    IN  /\ pc = "await"
        /\ tasks[1].status = "pending"
        /\ pc' = "responded"
        /\ console' = console \cup parseAndValidateAIResponseLogs(raw, scriptIssues, "script")
        /\ IF script.ok
           THEN /\ tasks' = <<Fulfilled(tasks[1], raw)>>
                /\ response' = [kind |-> "ok", body |-> script.value]
                /\ UNCHANGED thrown
           ELSE /\ tasks' = <<Invalid(tasks[1], raw, script)>>
                /\ Throw(tasks'[1].stage, tasks'[1].error)
        /\ UNCHANGED <<op, randVars, providerRegistry, sideVars, body, templates, providerCalls,
                       provider, results>>

\* the indexes of the skill pool the random source is sampled at: the first and
\* the last in a direct call of the randomizer, the last alone under a handler
SkillDraws == IF op = "randomizer" THEN {1, archetypeSkillCount} ELSE {archetypeSkillCount}

DrawFresh ==
    \E rSuit \in RandomIndex(CharacterSuit), rArchetype \in RandomIndex(CharacterArchetype),
       rSkill \in SkillDraws : LoopFresh(rSuit, rArchetype, rSkill)

DrawDuplicate ==
    \E rSuit \in RandomIndex(CharacterSuit), rArchetype \in RandomIndex(CharacterArchetype),
       rSkill \in SkillDraws : LoopDuplicate(rSuit, rArchetype, rSkill)

Next ==
    \/ \E n \in Counts : CallRandomizer(n)
    \/ DrawFresh
    \/ DrawDuplicate
    \/ RandomizerReturn
    \/ \E b \in CharactersBodies : PostCharacters(b)
    \/ \E config \in Configs : CharactersFanOut(config)
    \/ \E i \in 1..maxDistinct : CompleteRejects(i)
    \/ \E i \in 1..maxDistinct, raw \in CharacterReplies : CompleteResolves(i, raw)
    \/ \E b \in ScriptBodies, config \in Configs : PostScript(b, config)
    \/ ScriptRejects
    \/ \E raw \in ScriptReplies : ScriptResolves(raw)

Spec == Init /\ [][Next]_vars

(***************************************************************************)
(* The randomizer called on its own, with a fair random source: a pairing  *)
(* the Map does not hold yet is drawn eventually, and the synchronous loop *)
(* runs on to its return.                                                  *)
(***************************************************************************)
NextRandomizer ==
    \/ \E n \in Counts : CallRandomizer(n)
    \/ DrawFresh
    \/ DrawDuplicate
    \/ RandomizerReturn

SpecRandomizerFair ==
    /\ Init
    /\ [][NextRandomizer]_vars
    /\ WF_vars(DrawFresh)
    /\ WF_vars(RandomizerReturn)

(***************************************************************************)
(* Exceptions that are none of the three kinds                             *)
(***************************************************************************)
MaxFaultPlayers == 1

\* an exception of a programming defect
Defect == [name |-> "TypeError", message |-> Msg("undefined is not a function", <<>>)]

\* the exception is taken for a failure of the provider
Uncaught_Coerced(error) == toHttpError(AIProviderError(Msg("AI service error", <<>>)))

\* no handler has a catch: what is thrown past the helpers rejects the handler's
\* promise as it is, and the transport answers with a server fault
Uncaught(error) == [kind |-> "fault", statusCode |-> 500, error |-> error]

\* withAIProvider catches whatever fn() throws, the cause being kept aside
RejectedBy(task, cause) ==
    [Rejected(task) EXCEPT !.reply = [kind |-> "rejection", cause |-> cause]]

FaultBodies == {b \in CharactersBodies : b.playerCount <= MaxFaultPlayers}

\* buildScriptPrompt throws: the provider is resolved, complete() is not invoked
ScriptPromptThrows(b, config) ==
    /\ pc = "idle"
    /\ scriptRequestSchema(b).success
    /\ getAIProvider(config, providerRegistry).ok
    /\ op' = "script"
    /\ pc' = "responded"
    /\ body' = b
    /\ providerCalls' = providerCalls + 1
    /\ provider' = getAIProvider(config, providerRegistry).value
    /\ response' = Uncaught(Defect)
    /\ thrown' = [stage |-> "prompt", error |-> Defect]
    /\ UNCHANGED <<randVars, providerRegistry, sideVars, templates, tasks, results, console>>

\* provider.complete(prompt) of the script throws a defect of the adapter
ScriptCompleteThrows ==
    /\ pc = "await"
    /\ tasks[1].status = "pending"
    /\ tasks' = <<RejectedBy(tasks[1], Defect)>>
    /\ pc' = "responded"
    /\ Throw(tasks'[1].stage, tasks'[1].error)
    /\ UNCHANGED <<op, randVars, providerRegistry, sideVars, body, templates, providerCalls,
                   provider, results, console>>

\* provider.complete(prompt) of template i throws a defect of the adapter
CharacterCompleteThrows(i) ==
    /\ pc = "fanout"
    /\ i \in DOMAIN tasks
    /\ tasks[i].status = "pending"
    /\ tasks' = [tasks EXCEPT ![i] = RejectedBy(tasks[i], Defect)]
    /\ response' = PromiseAll(tasks', results, i).response
    /\ thrown' = PromiseAll(tasks', results, i).thrown
    /\ UNCHANGED <<op, pc, randVars, providerRegistry, sideVars, body, templates, providerCalls,
                   provider, results, console>>

\* the identity of template i was validated and the merge throws: the promise of
\* the callback rejects with the exception, and Promise.all with it if it is first
CharacterMergeThrows(i, raw) ==
    /\ pc = "fanout"
    /\ i \in DOMAIN tasks
    /\ tasks[i].status = "pending"
    /\ parseAndValidateAIResponse(raw, characterIdentitySchema, characterIdentityData).ok
    /\ tasks' = [tasks EXCEPT ![i] = [@ EXCEPT !.status = "rejected", !.reply = raw,
                                                !.stage = "merge", !.error = Defect]]
    /\ IF response.kind = "none"
       THEN /\ response' = Uncaught(Defect)
            /\ thrown' = [stage |-> "merge", error |-> Defect]
       ELSE UNCHANGED <<response, thrown>>
    /\ UNCHANGED <<op, pc, randVars, providerRegistry, sideVars, body, templates, providerCalls,
                   provider, results, console>>

NextFaults ==
    \/ \E b \in FaultBodies : PostCharacters(b)
    \/ DrawFresh
    \/ \E config \in Configs : CharactersFanOut(config)
    \/ \E i \in 1..MaxFaultPlayers : CompleteRejects(i)
    \/ \E i \in 1..MaxFaultPlayers, raw \in CharacterReplies : CompleteResolves(i, raw)
    \/ \E i \in 1..MaxFaultPlayers : CharacterCompleteThrows(i)
    \/ \E i \in 1..MaxFaultPlayers, raw \in CharacterReplies : CharacterMergeThrows(i, raw)
    \/ \E b \in ScriptBodies, config \in Configs : PostScript(b, config)
    \/ \E b \in ScriptBodies, config \in Configs : ScriptPromptThrows(b, config)
    \/ ScriptRejects
    \/ ScriptCompleteThrows
    \/ \E raw \in ScriptReplies : ScriptResolves(raw)

SpecFaults == Init /\ [][NextFaults]_vars

(***************************************************************************)
(* getAIProvider() called on its own, whatever was registered              *)
(***************************************************************************)
\* module load with no registration made yet
InitProvider ==
    /\ InitFrame
    /\ providerRegistry = {}

\* registerProvider(name, factory)
RegisterProvider(name) ==
    /\ call = NoCall
    /\ providerRegistry' = registerProvider(providerRegistry, name)
    /\ UNCHANGED <<op, pc, randVars, reqVars, other, call>>

\* getAIProvider() with useRuntimeConfig().ai being config
GetAIProvider(config) ==
    /\ call' = [fn |-> "getAIProvider",
                config |-> config,
                registry |-> providerRegistry,
                result |-> getAIProvider(config, providerRegistry),
                invoked |-> getAIProviderInvokes(config, providerRegistry)]
    /\ providerRegistry' = providerRegistryGet(providerRegistry, config.provider)
    /\ UNCHANGED <<op, pc, randVars, reqVars, other>>

NextProvider ==
    \/ \E name \in Range(AIProviderName) : RegisterProvider(name)
    \/ \E config \in Configs : GetAIProvider(config)

SpecProvider == InitProvider /\ [][NextProvider]_vars

(***************************************************************************)
(* Two requests served at once                                             *)
(***************************************************************************)
MaxConcurrentPlayers == 1

ConcurrentBodies == {b \in CharactersBodies : b.playerCount <= MaxConcurrentPlayers}

\* the bodies and the configurations of the second request
OtherBodies ==
    {b \in ScriptBodies : b.setting = <<"cyberpunk">> /\ b.language = "en"
                          /\ Len(b.characters) <= 1}

OtherConfigs ==
    {config \in Configs : /\ config.provider \in {"anthropic", "ollama"}
                          /\ config.ollamaHost # ""
                          /\ (config.provider = "ollama" => config.apiKey = "")}

\* the second request arrives and runs up to its await
OtherPostScript(b, config) ==
    LET parsed == scriptRequestSchema(b)
        resolved == getAIProvider(config, providerRegistry)
        frame == [pc |-> "responded", body |-> b, config |-> config,
                  provider |-> NoProvider, reply |-> NoReply, response |-> NoResponse]
    IN  /\ other.pc = "idle"
        /\ other' =
              IF ~parsed.success
              THEN [frame EXCEPT !.response =
                       toHttpError(ValidationError(Msg("Validation failed", <<>>), parsed.issues))]
              ELSE IF ~resolved.ok
                   THEN [frame EXCEPT !.response = toHttpError(resolved.error)]
                   ELSE [frame EXCEPT !.pc = "await", !.provider = resolved.value]
        /\ providerRegistry' = IF parsed.success
                               THEN providerRegistryGet(providerRegistry, config.provider)
                               ELSE providerRegistry
        /\ UNCHANGED <<op, pc, randVars, reqVars, call>>

\* the complete() call of the second request rejects
OtherRejects ==
    /\ other.pc = "await"
    /\ other' = [other EXCEPT !.pc = "responded", !.reply = Rejection,
                              !.response = toHttpError(withAIProviderCaught.error)]
    /\ UNCHANGED <<op, pc, randVars, providerRegistry, reqVars, call>>

\* the complete() call of the second request resolves with raw
OtherResolves(raw) ==
    LET script == parseAndValidateAIResponse(raw, gameMasterScriptSchema, gameMasterScriptData)
    IN  /\ other.pc = "await"
        /\ other' = [other EXCEPT !.pc = "responded", !.reply = raw,
                                  !.response = IF script.ok
                                               THEN [kind |-> "ok", body |-> script.value]
                                               ELSE toHttpError(script.error)]
        /\ console' = console \cup parseAndValidateAIResponseLogs(raw, scriptIssues, "script")
        /\ UNCHANGED <<op, pc, randVars, providerRegistry, body, templates, providerCalls,
                       provider, tasks, results, response, thrown, call>>

NextConcurrent ==
    \/ \E b \in ConcurrentBodies : PostCharacters(b)
    \/ DrawFresh
    \/ \E config \in Configs : CharactersFanOut(config)
    \/ \E i \in 1..MaxConcurrentPlayers : CompleteRejects(i)
    \/ \E i \in 1..MaxConcurrentPlayers, raw \in CharacterReplies : CompleteResolves(i, raw)
    \/ \E b \in OtherBodies, config \in OtherConfigs : OtherPostScript(b, config)
    \/ OtherRejects
    \/ \E raw \in ScriptReplies : OtherResolves(raw)

SpecConcurrent == Init /\ [][NextConcurrent]_vars

(***************************************************************************)
(* server/services/ai/anthropic.ts                                         *)
(***************************************************************************)
RECURSIVE JSONStringify(_), StringifyMembers(_, _)
\* JSON.stringify(value), value being a string, number, boolean, null or object
JSONStringify(v) ==
    IF v.t = "string" THEN <<Str(v.s)>>
    ELSE IF v.t = "number" THEN <<Num(v.n)>>
    ELSE IF v.t = "boolean" THEN <<Word(IF v.b THEN "true" ELSE "false")>>
    ELSE IF v.t = "object"
         THEN <<P("{")>> \o StringifyMembers(v.o, DOMAIN v.o) \o <<P("}")>>
    ELSE <<Word("null")>>

\* the members of o under keys, separated by commas
StringifyMembers(o, keys) ==
    IF keys = {}
    THEN <<>>
    ELSE LET key == CHOOSE k \in keys : TRUE
         IN  <<Str(key), P(":")>> \o JSONStringify(o[key])
                 \o (IF keys = {key} THEN <<>> ELSE <<P(",")>>)
                 \o StringifyMembers(o, keys \ {key})

RECURSIVE Join(_)
\* array.join("") of an array of texts
Join(texts) == IF texts = <<>> THEN <<>> ELSE Head(texts) \o Join(Tail(texts))

Undefined == [type |-> "undefined"]

\* if (prompt.jsonSchema)
HasJsonSchema(prompt) == Has(prompt, "jsonSchema") /\ prompt.jsonSchema # Undefined

IsToolUse(block) == block.type = "tool_use"

IsText(block) == block.type = "text"

\* an empty text is returned when there is no tool_use block
completeWithToolUse_NoThrow(content) ==
    [threw |-> FALSE, text |-> <<>>]

\* completeWithToolUse(prompt, jsonSchema), content being response.content
completeWithToolUse(content) ==
    LET found == {i \in DOMAIN content : IsToolUse(content[i])}
        toolBlock == content[CHOOSE i \in found : \A m \in found : i <= m]
    IN  IF found = {}
        THEN [threw |-> TRUE, error |-> "Expected tool_use block in response"]
        ELSE [threw |-> FALSE, text |-> JSONStringify(toolBlock.input)]

\* the opening brace is not put back
completeWithPrefill_NoBrace(content) ==
    LET blocks == SelectSeq(content, IsText)
    IN  [threw |-> FALSE, text |-> Join([i \in DOMAIN blocks |-> blocks[i].text])]

\* completeWithPrefill(prompt), content being response.content
completeWithPrefill(content) ==
    LET blocks == SelectSeq(content, IsText)
    IN  [threw |-> FALSE,
         text |-> <<P("{")>> \o Join([i \in DOMAIN blocks |-> blocks[i].text])]

\* complete(prompt), content being response.content of the backend
complete(prompt, content) ==
    IF HasJsonSchema(prompt)
    THEN completeWithToolUse(content)
    ELSE completeWithPrefill(content)

\* the fragment streamWithToolUse() yields on an event, if any
streamWithToolUseYields(event) ==
    IF event.type = "content_block_delta" /\ event.delta.type = "input_json_delta"
    THEN <<event.delta.partial_json>>
    ELSE <<>>

\* the fragment streamWithPrefill() yields on an event, if any
streamWithPrefillYields(event) ==
    IF event.type = "content_block_delta" /\ event.delta.type = "text_delta"
    THEN <<event.delta.text>>
    ELSE <<>>

(***************************************************************************)
(* parseAIJson() called on its own, one statement at a time                *)
(***************************************************************************)
\* JSON objects as a model writes them, with the value each one denotes
ObjectSamples ==
    { [text |-> <<P("{"), Str("name"), P(":"), Sp, Str("Alice"), P("}")>>,
       value |-> [name |-> JString("Alice")]],
      [text |-> <<P("{"), Str("count"), P(":"), Sp, Num("42"), P("}")>>,
       value |-> [count |-> JNumber("42")]],
      [text |-> <<P("{"), Nl, Sp, Str("ok"), P(":"), Sp, Word("true"), Nl, P("}")>>,
       value |-> [ok |-> JBoolean(TRUE)]],
      [text |-> <<P("{"), Str("weapon"), P(":"), Sp, P("{"), Str("name"), P(":"),
                  Str("Knife"), P(","), Sp, Str("concealed"), P(":"), Word("false"),
                  P("}"), P("}")>>,
       value |-> [weapon |-> JObject([name |-> JString("Knife"),
                                      concealed |-> JBoolean(FALSE)])]] }

\* objects written with a bare undefined after a colon
UndefinedSamples ==
    { [text |-> <<P("{"), Str("name"), P(":"), Sp, Str("Charlie"), P(","), Sp,
                  Str("weapon"), P(":"), Sp, Word("undefined"), P("}")>>,
       value |-> [name |-> JString("Charlie"), weapon |-> JNull]],
      [text |-> <<P("{"), Str("weapon"), P(":"), Word("undefined"), P("}")>>,
       value |-> [weapon |-> JNull]] }

Samples == ObjectSamples \cup UndefinedSamples

Padded(text) == <<Sp, Sp, Nl, Sp, Sp>> \o text \o <<Sp, Sp, Nl, Sp, Sp>>

FencedJson(text) == <<Fence, Word("json"), Nl>> \o text \o <<Nl, Fence>>

FencedPlain(text) == <<Fence, Nl>> \o text \o <<Nl, Fence>>

FencedInProse(text) ==
    <<Word("Here"), Sp, Word("it"), Sp, Word("is"), P(":"), Nl>>
        \o FencedJson(text) \o <<Nl, Word("Enjoy")>>

Wrappings(text) ==
    {text, Padded(text), FencedJson(text), FencedPlain(text), FencedInProse(text)}

NotJsonAtAll == <<Word("not"), Sp, Word("json"), Sp, Word("at"), Sp, Word("all")>>

\* texts that denote no object
NonObjectTexts ==
    { NotJsonAtAll,
      <<>>,
      <<Str("just a string")>>,
      <<Num("42")>>,
      <<Word("true")>>,
      <<Word("null")>>,
      FencedJson(<<Word("null")>>),
      Padded(<<Num("42")>>) }

\* an object whose string value holds a colon followed by the word undefined
QuotedUndefined == <<Word("status"), P(":"), Sp, Word("undefined")>>

QuotedSamples ==
    { <<P("{"), Str("note"), P(":"), Sp, Quoted(QuotedUndefined), P("}")>>,
      <<P("{"), Str("note"), P(":"), Sp, Quoted(<<Word("status"), P(":"), Sp, Word("ok")>>),
        P("}")>> }

TrailingComma == <<P("{"), Str("name"), P(":"), Sp, Str("Alice"), P(","), Nl, P("}")>>

ParseTexts ==
    UNION {Wrappings(sample.text) : sample \in Samples}
        \cup NonObjectTexts \cup {TrailingComma}
        \cup UNION {{text, FencedJson(text)} : text \in QuotedSamples}

\* parseAIJson(raw) is entered: let text = raw
ParseAIJson(raw) ==
    /\ call = NoCall
    /\ call' = [fn |-> "parseAIJson", raw |-> raw, text |-> raw,
                at |-> "fence", steps |-> <<>>]
    /\ UNCHANGED <<op, pc, randVars, reqVars, providerRegistry, other>>

\* one statement of the function ahead of the try block
ParseRewrite(at, text, next) ==
    /\ call.fn = "parseAIJson"
    /\ call.at = at
    /\ call' = [call EXCEPT !.text = text, !.at = next, !.steps = Append(@, at)]
    /\ UNCHANGED <<op, pc, randVars, reqVars, providerRegistry, other>>

ParseFence == ParseRewrite("fence", Fenced(call.text), "undefined")

ParseUndefined == ParseRewrite("undefined", ReplaceUndefined(call.text), "trim")

ParseTrim == ParseRewrite("trim", Trim(call.text), "repair")

\* the function returns result
ParseReturns(at, result) ==
    call' = [fn |-> "parseAIJson", raw |-> call.raw, text |-> call.text,
             at |-> "returned", steps |-> Append(call.steps, at), result |-> result]

\* jsonrepair(text), the argument of JSON.parse, inside the try block
ParseRepair ==
    /\ call.fn = "parseAIJson"
    /\ call.at = "repair"
    /\ \E outcome \in jsonrepair(call.text) :
           IF outcome.ok
           THEN call' = [call EXCEPT !.text = outcome.text, !.at = "parse",
                                     !.steps = Append(@, "repair")]
           ELSE ParseReturns("repair", err(Msg("Failed to parse AI JSON response", <<>>)))
    /\ UNCHANGED <<op, pc, randVars, reqVars, providerRegistry, other>>

\* JSON.parse(...) and the test of the parsed value
ParseParse ==
    /\ call.fn = "parseAIJson"
    /\ call.at = "parse"
    /\ LET parsed == JSONParse(call.text)
       IN  IF ~parsed.ok
           THEN ParseReturns("parse", err(Msg("Failed to parse AI JSON response", <<>>)))
           ELSE IF Falsy(parsed.value)
                THEN ParseReturns("parse", err(Msg("Parsed JSON is falsy", <<>>)))
                ELSE ParseReturns("parse", ok(parsed.value))
    /\ UNCHANGED <<op, pc, randVars, reqVars, providerRegistry, other>>

\* the caller takes the result
ParseDone ==
    /\ call.fn = "parseAIJson"
    /\ call.at = "returned"
    /\ call' = NoCall
    /\ UNCHANGED <<op, pc, randVars, reqVars, providerRegistry, other>>

NextParse ==
    \/ \E raw \in ParseTexts : ParseAIJson(raw)
    \/ ParseFence
    \/ ParseUndefined
    \/ ParseTrim
    \/ ParseRepair
    \/ ParseParse
    \/ ParseDone

SpecParse == Init /\ [][NextParse]_vars

(***************************************************************************)
(* The schemas applied on their own                                        *)
(***************************************************************************)
MaxSheets == 2

\* request bodies whose sheets carry every identity payload, at every position
SchemaBodies ==
    [characters : UNION {[1..n -> {SheetOf(identity) : identity \in IdentityPayloads}] :
                            n \in 0..MaxSheets},
     setting : {<<>>, <<"cyberpunk">>},
     language : {"en"}]

\* characterIdentitySchema.safeParse(v)
SafeParseIdentity(v) ==
    /\ call = NoCall
    /\ call' = [fn |-> "characterIdentitySchema.safeParse", input |-> v,
                success |-> characterIdentitySchema(v)]
    /\ UNCHANGED <<op, pc, randVars, reqVars, providerRegistry, other>>

\* scriptRequestSchema.safeParse(b)
SafeParseScriptRequest(b) ==
    /\ call = NoCall
    /\ call' = [fn |-> "scriptRequestSchema.safeParse", input |-> b,
                success |-> scriptRequestSchema(b).success]
    /\ UNCHANGED <<op, pc, randVars, reqVars, providerRegistry, other>>

\* request bodies whose playerCount runs over the halves around 1..maxDistinct
NumberBodies ==
    [playerCount : InHalves(0 - 1)..InHalves(maxDistinct + 2),
     setting : {<<>>, <<"cyberpunk">>, <<"notAGenre">>, <<"highFantasy", "darkFantasy">>},
     language : {"en", "it", "fr"}]

\* charactersRequestSchema.safeParse(b), and what the guard of
\* generateRandomDistinctCharacters makes of b.playerCount
SafeParseCharactersRequest(b) ==
    /\ call = NoCall
    /\ call' = [fn |-> "charactersRequestSchema.safeParse", input |-> b,
                success |-> SafeParse(charactersRequestKeys(b.playerCount, b.setting,
                                                            b.language), b).success,
                exceeds |-> ExceedsNumber(b.playerCount)]
    /\ UNCHANGED <<op, pc, randVars, reqVars, providerRegistry, other>>

\* the caller takes the result
SafeParseDone ==
    /\ call # NoCall
    /\ call' = NoCall
    /\ UNCHANGED <<op, pc, randVars, reqVars, providerRegistry, other>>

NextSchema ==
    \/ \E v \in IdentityPayloads : SafeParseIdentity(v)
    \/ \E b \in SchemaBodies : SafeParseScriptRequest(b)
    \/ \E b \in NumberBodies : SafeParseCharactersRequest(b)
    \/ SafeParseDone

SpecSchema == Init /\ [][NextSchema]_vars

(***************************************************************************)
(* AnthropicProvider called on its own, against every reply of the backend *)
(***************************************************************************)
MaxPieces == 2

TestSchema == [type |-> "object", properties |-> {"name"}]

ToolInput ==
    JObject([name |-> JString("Alice"),
             weapon |-> JObject([name |-> JString("Knife"), concealed |-> JBoolean(TRUE)]),
             instrument |-> JNull])

\* what the backend replies with, piece by piece: text, a tool input, or
\* something that is neither
Pieces ==
    { [kind |-> "text", text |-> <<Str("name"), P(":"), Sp, Str("Alice")>>],
      [kind |-> "text", text |-> <<P(","), Str("ok"), P(":"), Word("true"), P("}")>>],
      [kind |-> "tool", input |-> ToolInput],
      [kind |-> "other"] }

Replies == UNION {[1..n -> Pieces] : n \in 0..MaxPieces}

\* a piece as a block of response.content
AsBlock(piece) ==
    IF piece.kind = "text" THEN [type |-> "text", text |-> piece.text]
    ELSE IF piece.kind = "tool" THEN [type |-> "tool_use", input |-> piece.input]
    ELSE [type |-> "thinking"]

\* a piece as an event of the stream
AsEvent(piece) ==
    IF piece.kind = "text"
    THEN [type |-> "content_block_delta",
          delta |-> [type |-> "text_delta", text |-> piece.text]]
    ELSE IF piece.kind = "tool"
         THEN [type |-> "content_block_delta",
               delta |-> [type |-> "input_json_delta",
                          partial_json |-> JSONStringify(piece.input)]]
    ELSE [type |-> "content_block_start"]

Content(reply) == [i \in DOMAIN reply |-> AsBlock(reply[i])]

Events(reply) ==
    <<[type |-> "message_start"]>> \o [i \in DOMAIN reply |-> AsEvent(reply[i])]
        \o <<[type |-> "message_stop"]>>

AnthropicPrompts ==
    { [system |-> "sys", user |-> "usr"],
      [system |-> "sys", user |-> "usr", jsonSchema |-> Undefined],
      [system |-> "sys", user |-> "usr", jsonSchema |-> TestSchema] }

\* the argument of messages.create() and of messages.stream()
MessagesRequest(prompt) ==
    IF HasJsonSchema(prompt)
    THEN [system |-> prompt.system,
          messages |-> <<[role |-> "user", content |-> prompt.user]>>,
          tools |-> <<[name |-> "generate_json", input_schema |-> prompt.jsonSchema]>>,
          tool_choice |-> [type |-> "tool", name |-> "generate_json"]]
    ELSE [system |-> prompt.system,
          messages |-> <<[role |-> "user", content |-> prompt.user],
                         [role |-> "assistant", content |-> "{"]>>]

\* withAIProvider(() => provider.complete(prompt)), as the endpoints call it
WithAIProvider(outcome) ==
    IF outcome.threw THEN withAIProviderCaught ELSE ok([text |-> outcome.text])

\* complete(prompt) up to its await
AnthropicComplete(prompt) ==
    /\ call = NoCall
    /\ call' = [fn |-> "complete", prompt |-> prompt, at |-> "await",
                request |-> MessagesRequest(prompt)]
    /\ UNCHANGED <<op, pc, randVars, reqVars, providerRegistry, other>>

\* messages.create() resolves, and complete() runs to its end
MessagesCreateResolves(reply) ==
    /\ call.fn = "complete"
    /\ call.at = "await"
    /\ call' = [fn |-> "complete", prompt |-> call.prompt, at |-> "settled",
                request |-> call.request, backend |-> "resolved", reply |-> reply,
                outcome |-> complete(call.prompt, Content(reply)),
                endpoint |-> WithAIProvider(complete(call.prompt, Content(reply)))]
    /\ UNCHANGED <<op, pc, randVars, reqVars, providerRegistry, other>>

\* messages.create() rejects, and so does complete()
MessagesCreateRejects ==
    /\ call.fn = "complete"
    /\ call.at = "await"
    /\ call' = [fn |-> "complete", prompt |-> call.prompt, at |-> "settled",
                request |-> call.request, backend |-> "rejected", reply |-> <<>>,
                outcome |-> [threw |-> TRUE, error |-> "backend"],
                endpoint |-> WithAIProvider([threw |-> TRUE, error |-> "backend"])]
    /\ UNCHANGED <<op, pc, randVars, reqVars, providerRegistry, other>>

\* stream(prompt) up to its loop: the prefill path yields the brace first
AnthropicStream(prompt, reply) ==
    /\ call = NoCall
    /\ call' = [fn |-> "stream", prompt |-> prompt, at |-> "events",
                request |-> MessagesRequest(prompt), reply |-> reply,
                events |-> Events(reply), next |-> 1,
                yielded |-> IF HasJsonSchema(prompt) THEN <<>> ELSE <<<<P("{")>>>>]
    /\ UNCHANGED <<op, pc, randVars, reqVars, providerRegistry, other>>

\* one round of for await (const event of stream)
StreamEvent ==
    /\ call.fn = "stream"
    /\ call.at = "events"
    /\ call.next <= Len(call.events)
    /\ call' = [call EXCEPT
                   !.next = @ + 1,
                   !.yielded = @ \o (IF HasJsonSchema(call.prompt)
                                     THEN streamWithToolUseYields(call.events[call.next])
                                     ELSE streamWithPrefillYields(call.events[call.next]))]
    /\ UNCHANGED <<op, pc, randVars, reqVars, providerRegistry, other>>

\* the stream is exhausted
StreamEnds ==
    /\ call.fn = "stream"
    /\ call.at = "events"
    /\ call.next > Len(call.events)
    /\ call' = [call EXCEPT !.at = "returned"]
    /\ UNCHANGED <<op, pc, randVars, reqVars, providerRegistry, other>>

\* the caller is done with the provider
AnthropicDone ==
    /\ call.fn \in {"complete", "stream"}
    /\ call.at \in {"settled", "returned"}
    /\ call' = NoCall
    /\ UNCHANGED <<op, pc, randVars, reqVars, providerRegistry, other>>

NextAnthropic ==
    \/ \E prompt \in AnthropicPrompts : AnthropicComplete(prompt)
    \/ \E reply \in Replies : MessagesCreateResolves(reply)
    \/ MessagesCreateRejects
    \/ \E prompt \in AnthropicPrompts, reply \in Replies : AnthropicStream(prompt, reply)
    \/ StreamEvent
    \/ StreamEnds
    \/ AnthropicDone

SpecAnthropic == Init /\ [][NextAnthropic]_vars

(***************************************************************************)
(* POST /api/campaign/characters with identities written by the model as   *)
(* the system prompt tells it to                                           *)
(***************************************************************************)
MaxWrittenPlayers == 1

OptionalFields == {"pronouns", "concept", "weapon", "instrument"}

\* an identity whose field is written as the bare word undefined
IdentityTextWith(field) ==
    <<P("{"), Nl, Sp, Str("name"), P(":"), Sp, Str("Alice"), P(","), Nl,
      Sp, Str(field), P(":"), Sp, Word("undefined"), Nl, P("}")>>

\* the same identity with the field left out
IdentityTextWithout == <<P("{"), Nl, Sp, Str("name"), P(":"), Sp, Str("Alice"), Nl, P("}")>>

WrittenReplies ==
    {WrittenText(IdentityTextWith(field)) : field \in OptionalFields}
        \cup {WrittenText(FencedJson(IdentityTextWith("weapon"))),
              WrittenText(IdentityTextWithout)}

WrittenBodies ==
    {b \in CharactersBodies : b.playerCount <= MaxWrittenPlayers /\ b.language = "en"}

NextWritten ==
    \/ \E b \in WrittenBodies : PostCharacters(b)
    \/ DrawFresh
    \/ \E config \in Configs : CharactersFanOut(config)
    \/ \E i \in 1..MaxWrittenPlayers, raw \in WrittenReplies : CompleteResolves(i, raw)

SpecWritten == Init /\ [][NextWritten]_vars

(***************************************************************************)
(* generateRandomDistinctCharacters called with any number                 *)
(***************************************************************************)
MaxNumber == 2

\* the counts, in halves: from -MaxNumber to MaxNumber and a half, and the
\* first numbers above maxDistinct
Numbers ==
    (InHalves(0 - MaxNumber)..(InHalves(MaxNumber) + 1))
        \cup {InHalves(maxDistinct) + 1, InHalves(maxDistinct + 1)}

\* generateRandomDistinctCharacters(count), count being h halves: the guard,
\* then the empty Map
CallRandomizerWith(h) ==
    /\ pc = "idle"
    /\ call = NoCall
    /\ op' = "randomizer"
    /\ call' = [fn |-> "generateRandomDistinctCharacters", count |-> h]
    /\ generatedCharacters' = <<>>
    /\ draws' = 0
    /\ IF ExceedsNumber(h)
       THEN /\ pc' = "returned"
            /\ randResult' = err(CannotGenerate(h))
       ELSE /\ pc' = "loop"
            /\ randResult' = NoResult
    /\ UNCHANGED <<count, providerRegistry, other, reqVars>>

\* one iteration of the loop: the character is stored unless its pairing is held
LoopWith(rSuit, rArchetype, rSkill) ==
    LET newCharacter == generateCharacter(rSuit, rArchetype, rSkill)
    IN  /\ pc = "loop"
        /\ call.fn = "generateRandomDistinctCharacters"
        /\ BelowNumber(generatedCharacters, call.count)
        /\ generatedCharacters' =
              IF MapHas(generatedCharacters, TemplateKey(newCharacter))
              THEN generatedCharacters
              ELSE MapSet(generatedCharacters, newCharacter)
        /\ draws' = Bump(draws)
        /\ UNCHANGED <<op, pc, count, randResult, providerRegistry, sideVars, reqVars>>

\* the loop ends: return ok(Array.from(generatedCharacters.values()))
ReturnWith ==
    /\ pc = "loop"
    /\ call.fn = "generateRandomDistinctCharacters"
    /\ ~BelowNumber(generatedCharacters, call.count)
    /\ pc' = "returned"
    /\ randResult' = ok(generatedCharacters)
    /\ UNCHANGED <<op, count, generatedCharacters, draws, providerRegistry, sideVars, reqVars>>

NextNumber ==
    \/ \E h \in Numbers : CallRandomizerWith(h)
    \/ \E rSuit \in RandomIndex(CharacterSuit), rArchetype \in RandomIndex(CharacterArchetype) :
          LoopWith(rSuit, rArchetype, archetypeSkillCount)
    \/ ReturnWith

SpecNumber == Init /\ [][NextNumber]_vars

(***************************************************************************)
(* app/stores/campaign.ts: the client campaign store                       *)
(***************************************************************************)
GenerationStatus == {"idle", "generating-characters", "generating-script", "done", "error"}

\* the refs of the setup function, as they are when the store is defined
StoreRefs ==
    [playerCount |-> 0,
     campaignSetting |-> <<>>,
     characters |-> <<>>,
     gmScript |-> Undefined,
     generationStatus |-> "idle",
     errorMessage |-> Undefined]

\* only the first generation stage counts as loading
isLoading_FirstStage(store) == store.generationStatus = "generating-characters"

isLoading(store) ==
    \/ store.generationStatus = "generating-characters"
    \/ store.generationStatus = "generating-script"

\* a stored script counts as a result
hasResult_Script(store) == store.gmScript # Undefined

hasResult(store) == store.generationStatus = "done"

campaign(store) ==
    IF store.generationStatus # "done" \/ store.gmScript = Undefined
    THEN Undefined
    ELSE [name |-> "",
          setting |-> store.campaignSetting,
          compromised |-> FALSE,
          gameMasterScript |-> store.gmScript]

setInput(store, n, setting) ==
    [store EXCEPT !.playerCount = n, !.campaignSetting = setting]

setCharacters(store, sheets) ==
    [store EXCEPT !.characters = sheets, !.generationStatus = "generating-script"]

setScript(store, script) ==
    [store EXCEPT !.gmScript = script, !.generationStatus = "done"]

setError(store, message) ==
    [store EXCEPT !.errorMessage = message, !.generationStatus = "error"]

\* the error message outlives the reset
reset_KeepsError(store) ==
    [store EXCEPT !.playerCount = 0, !.campaignSetting = <<>>, !.characters = <<>>,
                  !.gmScript = Undefined, !.generationStatus = "idle"]

\* $reset()
reset(store) ==
    [store EXCEPT !.playerCount = 0, !.campaignSetting = <<>>, !.characters = <<>>,
                  !.gmScript = Undefined, !.generationStatus = "idle",
                  !.errorMessage = Undefined]

(***************************************************************************)
(* The store used on its own: its actions in any order, and the exposed    *)
(* status ref written by the caller                                        *)
(***************************************************************************)
StoreCounts == {0, 1, 3}

StoreSettings == {<<>>, <<"cyberpunk">>}

StoreSheets == {<<>>, <<SheetOf(IdentityFull)>>}

StoreScripts == {ScriptWith(weakPointCount)}

\* the messages, as string values: errorMessage holds one or undefined
StoreMessages == {JString(""), JString("AI service error")}

StoreIs(last) == call.fn = "useCampaignStore" /\ call.last = last

\* what a store action leaves behind it
Stored(last, store) == [fn |-> "useCampaignStore", last |-> last, store |-> store]

\* useCampaignStore(): the setup function runs
DefineStore ==
    /\ pc = "idle"
    /\ call = NoCall
    /\ call' = Stored("defineStore", StoreRefs)
    /\ UNCHANGED <<op, pc, randVars, reqVars, providerRegistry, other>>

StoreSetInput(n, setting) ==
    /\ call.fn = "useCampaignStore"
    /\ call' = Stored("setInput", setInput(call.store, n, setting))
    /\ UNCHANGED <<op, pc, randVars, reqVars, providerRegistry, other>>

StoreSetCharacters(sheets) ==
    /\ call.fn = "useCampaignStore"
    /\ call' = Stored("setCharacters", setCharacters(call.store, sheets))
    /\ UNCHANGED <<op, pc, randVars, reqVars, providerRegistry, other>>

StoreSetScript(script) ==
    /\ call.fn = "useCampaignStore"
    /\ call' = Stored("setScript", setScript(call.store, script))
    /\ UNCHANGED <<op, pc, randVars, reqVars, providerRegistry, other>>

StoreSetError(message) ==
    /\ call.fn = "useCampaignStore"
    /\ call' = Stored("setError", setError(call.store, message))
    /\ UNCHANGED <<op, pc, randVars, reqVars, providerRegistry, other>>

StoreReset ==
    /\ call.fn = "useCampaignStore"
    /\ call' = Stored("$reset", reset(call.store))
    /\ UNCHANGED <<op, pc, randVars, reqVars, providerRegistry, other>>

\* store.generationStatus = status: the ref is part of the returned object
StoreWriteStatus(status) ==
    /\ call.fn = "useCampaignStore"
    /\ call' = Stored("generationStatus", [call.store EXCEPT !.generationStatus = status])
    /\ UNCHANGED <<op, pc, randVars, reqVars, providerRegistry, other>>

NextStore ==
    \/ DefineStore
    \/ \E n \in StoreCounts, setting \in StoreSettings : StoreSetInput(n, setting)
    \/ \E sheets \in StoreSheets : StoreSetCharacters(sheets)
    \/ \E script \in StoreScripts : StoreSetScript(script)
    \/ \E message \in StoreMessages : StoreSetError(message)
    \/ StoreReset
    \/ StoreWriteStatus("generating-characters")

SpecStore == Init /\ [][NextStore]_vars

(***************************************************************************)
(* Properties                                                              *)
(***************************************************************************)
PairwiseDistinct(ts) ==
    \A i, j \in DOMAIN ts :
        i # j => <<ts[i].archetype, ts[i].suit>> # <<ts[j].archetype, ts[j].suit>>

\* C1: for every count in 1..9 a call of generateRandomDistinctCharacters(count)
\* that has returned holds a success result with exactly count templates whose
\* (archetype, suit) pairs are pairwise distinct, whatever was drawn.
C1_ExactlyCountDistinct ==
    (op = "randomizer" /\ pc = "returned" /\ count \in 1..9) =>
        /\ randResult.ok
        /\ Len(randResult.value) = count
        /\ PairwiseDistinct(randResult.value)

\* a call for at least two characters has returned after a repeated pairing was drawn
C1_Witness ==
    /\ op = "randomizer" /\ pc = "returned" /\ count >= 2
    /\ randResult.ok
    /\ draws > count

\* C2: for every count above 9 the call fails at once with a Validation error of
\* status 422 whose message holds the requested count and the maximum 9; the loop
\* is never entered and generateCharacter is never called.
C2_OverMaxRejected ==
    (op = "randomizer" /\ count > 9) =>
        /\ pc = "returned"
        /\ ~randResult.ok
        /\ randResult.error.name = "ValidationError"
        /\ randResult.error.statusCode = 422
        /\ randResult.error.message.args = <<count, 9>>
        /\ draws = 0
        /\ generatedCharacters = <<>>

\* a call for 11 characters has been rejected
C2_Witness ==
    /\ op = "randomizer" /\ count = 11 /\ pc = "returned"
    /\ ~randResult.ok

\* count minus the distinct pairings collected so far
RemainingSlots == count - Len(generatedCharacters)

\* C3 as stated: every iteration of the sampling loop strictly shrinks the number
\* of remaining slots, which bounds the iterations by count.
C3_StrictlyShrinks ==
    [][(pc = "loop" /\ pc' = "loop") => RemainingSlots' < RemainingSlots]_vars

\* C3 as amended: an iteration of the loop never grows the number of remaining
\* slots (a repeated pairing leaves it unchanged, so the iterations are unbounded),
\* and with a random source that eventually draws a pairing not yet collected the
\* loop is always left eventually.
C3_ReturnsUnderFairDraws ==
    /\ [][(pc = "loop" /\ pc' = "loop") => RemainingSlots' <= RemainingSlots]_vars
    /\ (pc = "loop") ~> (pc = "returned" /\ randResult.ok /\ RemainingSlots = 0)

\* a call has returned after an iteration that did not shrink the remaining slots
C3_Witness ==
    /\ op = "randomizer" /\ pc = "returned" /\ count >= 1
    /\ randResult.ok
    /\ draws > Len(generatedCharacters)

\* every template the randomizer holds or has returned
AllTemplates ==
    Range(generatedCharacters) \cup Range(templates)
        \cup (IF randResult.ok THEN Range(randResult.value) ELSE {})

CycleSuccessor(suit) ==
    CASE suit = "hearts" -> "clubs"
      [] suit = "clubs" -> "spades"
      [] suit = "spades" -> "hearts"

\* C4: every generated template has modifiers that sum to 0, with -1 on its own
\* suit, +1 on the suit after it in the cycle hearts->clubs->spades->hearts and 0
\* on the third, so exactly one -1 and exactly one +1.
C4_ModifiersBalanced ==
    \A t \in AllTemplates :
        /\ DOMAIN t.modifiers = {"hearts", "clubs", "spades"}
        /\ t.modifiers["hearts"] + t.modifiers["clubs"] + t.modifiers["spades"] = 0
        /\ t.modifiers[t.suit] = -1
        /\ t.modifiers[CycleSuccessor(t.suit)] = 1
        /\ Cardinality({s \in DOMAIN t.modifiers : t.modifiers[s] = -1}) = 1
        /\ Cardinality({s \in DOMAIN t.modifiers : t.modifiers[s] = 1}) = 1
        /\ Cardinality({s \in DOMAIN t.modifiers : t.modifiers[s] = 0}) = 1

\* a returned call holds a spades template, whose malus wraps around to hearts
C4_Witness ==
    /\ pc = "returned" /\ randResult.ok
    /\ \E t \in Range(randResult.value) : t.suit = "spades" /\ t.modifiers["hearts"] = 1

RequestValid ==
    CASE op = "characters" -> charactersRequestSchema(body).success
      [] op = "script" -> scriptRequestSchema(body).success
      [] OTHER -> FALSE

\* C5: a generate-characters request that fails the request schema or the
\* randomizer's precondition is answered 422, and then the provider was never
\* resolved and complete() never invoked.
C5_RejectedBeforeProvider ==
    (op = "characters" /\ (~RequestValid \/ body.playerCount > 9
                           \/ (response.kind = "error" /\ response.statusCode = 422))) =>
        /\ response.kind = "error"
        /\ response.statusCode = 422
        /\ providerCalls = 0
        /\ provider = NoProvider
        /\ tasks = <<>>

\* a request for 10 players has been answered 422
C5_Witness ==
    /\ op = "characters" /\ body.playerCount = 10
    /\ body.setting = <<"cyberpunk">> /\ body.language = "en"
    /\ response.kind = "error" /\ response.statusCode = 422

\* C6: in a successful generate-characters response the i-th sheet is built from
\* the i-th template and from the identity that the call issued for that template
\* resolved with, in whatever order the calls settled.
C6_SheetsInTemplateOrder ==
    (op = "characters" /\ response.kind = "ok") =>
        /\ Len(response.body) = Len(templates)
        /\ \A i \in DOMAIN templates :
              /\ response.body[i].archetype = templates[i].archetype
              /\ response.body[i].suit = templates[i].suit
              /\ tasks[i].prompt.user[1] = templates[i].archetype
              /\ tasks[i].prompt.user[3] = templates[i].suit
              /\ tasks[i].reply.kind = "json"
              /\ DOMAIN response.body[i].characterIdentity
                    = DOMAIN tasks[i].reply.value.o \cap identityKeys
              /\ \A k \in DOMAIN response.body[i].characterIdentity :
                    response.body[i].characterIdentity[k] = tasks[i].reply.value.o[k]

\* a response of two sheets whose calls resolved with different identities
C6_Witness ==
    /\ op = "characters" /\ response.kind = "ok"
    /\ Len(templates) >= 2
    /\ tasks[1].reply.value.o.name # tasks[2].reply.value.o.name

\* C7: once one identity call of a generate-characters request has failed
\* (rejection, unparseable text or invalid identity) the request is answered with
\* a failure; a success response exists only when every call was fulfilled, and it
\* holds a sheet for every template.
C7_AllOrNothing ==
    op = "characters" =>
        /\ (\E i \in DOMAIN tasks : tasks[i].status = "rejected") => response.kind = "error"
        /\ response.kind = "ok" =>
              /\ tasks # <<>>
              /\ \A i \in DOMAIN tasks : tasks[i].status = "fulfilled"
              /\ Len(response.body) = Len(templates)
              /\ \A i \in DOMAIN response.body : response.body[i] # Empty

\* one call was fulfilled, another failed, every call has settled and the request failed
C7_Witness ==
    /\ op = "characters" /\ response.kind = "error"
    /\ \E i, j \in DOMAIN tasks :
          /\ tasks[i].status = "fulfilled" /\ results[i] # Empty
          /\ tasks[j].status = "rejected"
    /\ \A i \in DOMAIN tasks : tasks[i].status # "pending"

\* C8: complete() is invoked exactly once per template of a generate-characters
\* request and exactly once in a generate-script request that reaches the call;
\* no call is issued twice, a failed one included.
C8_OneCallEach ==
    /\ \A i \in DOMAIN tasks : tasks[i].calls = 1
    /\ \A i, j \in DOMAIN tasks : i # j => tasks[i].prompt # tasks[j].prompt
    /\ (op = "characters" /\ pc = "fanout") => Len(tasks) = Len(templates)
    /\ (op = "script" /\ RequestValid /\ provider # NoProvider) => Len(tasks) = 1
    /\ (op = "script" /\ ~(RequestValid /\ provider # NoProvider)) => tasks = <<>>

\* every call of a request for two characters has settled, one of them by a rejection
C8_Witness ==
    /\ op = "characters" /\ Len(tasks) >= 2
    /\ \A i \in DOMAIN tasks : tasks[i].status # "pending"
    /\ \E i \in DOMAIN tasks : tasks[i].reply = Rejection

SheetKeys ==
    {"archetype", "suit", "damage", "modifiers", "suitSkill", "archetypeSkills",
     "characterIdentity"}

\* C9: every sheet of generate-characters carries the archetype, suit, damage,
\* modifiers, suitSkill and archetypeSkills of its own template, adds the validated
\* identity as characterIdentity and holds neither characterization; the template
\* still is the template that was generated.
C9_SheetIsTemplatePlusIdentity ==
    op = "characters" =>
        \A i \in DOMAIN results : results[i] # Empty =>
            /\ DOMAIN results[i] = SheetKeys
            /\ \A k \in SheetKeys \ {"characterIdentity"} : results[i][k] = templates[i][k]
            /\ Has(results[i].characterIdentity, "name")
            /\ characterIdentitySchema(JObject(results[i].characterIdentity))
            /\ DOMAIN templates[i] = (SheetKeys \ {"characterIdentity"})
                                     \cup {"suitCharacterization", "archetypeCharacterization"}
            /\ templates[i].damage = [hearts |-> FALSE, clubs |-> FALSE, spades |-> FALSE]
            /\ templates[i].modifiers[templates[i].suit] = -1
            /\ Len(templates[i].archetypeSkills) = 1

\* a response holds a sheet with the full identity
C9_Witness ==
    /\ op = "characters" /\ response.kind = "ok"
    /\ Has(response.body[1].characterIdentity, "weapon")

\* C10: a failure of either endpoint is reported with the class and the status of
\* its kind: a rejected request body as Validation 422, a provider that could not
\* be resolved or a complete() call that rejected as Provider 502, a text that
\* could not be parsed or failed the schema as Response 502.
C10_StatusOfKind ==
    (op \in {"characters", "script"} /\ response.kind = "error") =>
        /\ response.statusCode = thrown.error.statusCode
        /\ IF ~RequestValid
           THEN thrown.error.name = "ValidationError" /\ response.statusCode = 422
           ELSE IF tasks = <<>>
           THEN thrown.error.name = "AIProviderError" /\ response.statusCode = 502
           ELSE \E i \in DOMAIN tasks :
                   /\ tasks[i].status = "rejected"
                   /\ thrown.error.name = tasks[i].error.name
                   /\ response.statusMessage.template = tasks[i].error.message.template
                   /\ response.statusCode = 502
                   /\ IF tasks[i].reply = Rejection
                      THEN thrown.error.name = "AIProviderError"
                      ELSE thrown.error.name = "AIResponseError"

\* a request failed on a text that parsed but is no valid identity
C10_Witness ==
    /\ op = "characters" /\ response.kind = "error"
    /\ thrown.stage = "schema"
    /\ response.statusCode = 502

\* parseAndValidateAIResponse as the running operation calls it
ParseFor(raw) ==
    IF op = "script"
    THEN parseAndValidateAIResponse(raw, gameMasterScriptSchema, gameMasterScriptData)
    ELSE parseAndValidateAIResponse(raw, characterIdentitySchema, characterIdentityData)

StageOf(raw) == IF parseAIJson(raw).ok THEN "schema" ELSE "parse"

\* C11: the error an endpoint returns for a text that failed to parse or failed
\* the schema is the one it returns for any other text failing at the same stage
\* (status, message and data are equal), it carries no data, and an error that
\* carries data is a Validation error.
C11_ErrorIndependentOfRawText ==
    /\ \A i \in DOMAIN tasks : tasks[i].stage \in {"parse", "schema"} =>
          /\ toHttpError(tasks[i].error).data = NoData
          /\ \A raw \in RawTexts :
                (~ParseFor(raw).ok /\ StageOf(raw) = tasks[i].stage) =>
                    toHttpError(ParseFor(raw).error) = toHttpError(tasks[i].error)
    /\ (response.kind = "error" /\ thrown.stage \in {"parse", "schema"}) =>
          /\ response.data = NoData
          /\ \E i \in DOMAIN tasks : response = toHttpError(tasks[i].error)
    /\ (response.kind = "error" /\ response.data # NoData) =>
          thrown.error.name = "ValidationError"

\* a generate-script request failed on a text that is no JSON
C11_Witness ==
    /\ op = "script" /\ response.kind = "error"
    /\ thrown.stage = "parse"
    /\ tasks[1].reply.kind = "prose"

\* what the runtime configuration is made of: the names of its settings, of the
\* environment variables that set them, and the provider names
ConfigurationDetail ==
    {"runtimeConfig.ai.provider", "runtimeConfig.ai.apiKey", "runtimeConfig.ai.ollamaHost",
     "NUXT_AI_API_KEY", "NUXT_AI_OLLAMA_HOST"}
        \cup ({config.provider : config \in Configs} \ {""})

\* C12: when the provider cannot be resolved, the message returned to the client
\* names no setting, no environment variable and no provider.
C12_NoConfigurationDetail ==
    (response.kind = "error" /\ thrown.stage = "provider") =>
        Range(response.statusMessage.args) \cap ConfigurationDetail = {}

\* the provider could not be resolved and the request was answered 502
C12_Reached ==
    /\ response.kind = "error" /\ thrown.stage = "provider"
    /\ response.statusCode = 502

\* the label parseAndValidateAIResponse is given by the running operation
LabelOf == IF op = "script" THEN "script" ELSE "characters"

\* C13 as stated: every text that failed to parse or failed the schema is in a
\* line of the diagnostic log by the time its failure is reported.
C13_RawTextAlwaysLogged ==
    \A i \in DOMAIN tasks : tasks[i].stage \in {"parse", "schema"} =>
        \E line \in console : Has(line, "raw") /\ line.raw = tasks[i].reply

\* C13: a text that failed to parse is in a line of the diagnostic log, under the
\* label of its operation, by the time its failure is reported; for a text that
\* parsed but failed the schema the log holds the issues of the schema and no line
\* with the text; nothing else is logged.
C13_LoggedBeforeConversion ==
    /\ \A i \in DOMAIN tasks :
          /\ tasks[i].stage = "parse" =>
                \E line \in console :
                    /\ line.label = LabelOf
                    /\ Has(line, "raw") /\ line.raw = tasks[i].reply
          /\ tasks[i].stage = "schema" =>
                /\ \E line \in console :
                      /\ line.label = LabelOf
                      /\ Has(line, "issues") /\ line.issues # <<>>
                /\ \A line \in console : Has(line, "raw") => line.raw # tasks[i].reply
    /\ (response.kind = "error" /\ thrown.stage \in {"parse", "schema"}) => console # {}
    /\ \A line \in console :
          \E i \in DOMAIN tasks :
              /\ tasks[i].stage \in {"parse", "schema"}
              /\ Has(line, "raw") => (tasks[i].stage = "parse" /\ line.raw = tasks[i].reply)
              /\ Has(line, "issues") => tasks[i].stage = "schema"

\* one text of a request failed to parse and another failed the schema
C13_Witness ==
    /\ op = "characters"
    /\ \E i, j \in DOMAIN tasks : tasks[i].stage = "parse" /\ tasks[j].stage = "schema"
    /\ Cardinality(console) = 2


ErrorKinds == {"ValidationError", "AIProviderError", "AIResponseError"}

ByDefect(task) == Has(task.reply, "cause") /\ task.reply.cause = Defect

ConditionOf(error) ==
    CASE error.message.template = "AI provider is not configured. Set {0} in nuxt.config.ts."
            -> "name absent"
      [] error.message.template = "Invalid AI provider {0}. Valid options are: {1}, {2}, {3}. Set {4} in nuxt.config.ts."
            -> "name unknown"
      [] error.message.template = "AI provider {0} is configured but no API key was provided. Set {1} via {2} environment variable."
            -> "API key missing"
      [] error.message.template = "AI provider {0} is configured but no host was provided. Set {1} via {2} environment variable."
            -> "host missing"
      [] error.message.template = "AI provider {0} is not registered. Available providers: {1}. Ensure the provider module is imported."
            -> "not registered"
      [] OTHER -> "other"

\* the condition the configuration and the registry of a call ask for
ExpectedCondition(config, registry) ==
    IF config.provider = "" THEN "name absent"
    ELSE IF config.provider \notin {"anthropic", "ollama", "openai"} THEN "name unknown"
    ELSE IF config.provider = "ollama" /\ config.ollamaHost = "" THEN "host missing"
    ELSE IF config.provider # "ollama" /\ config.apiKey = "" THEN "API key missing"
    ELSE IF config.provider \notin registry THEN "not registered"
    ELSE "none"

StartupRegistry == {"anthropic", "ollama", "openai"}

\* the response of a generate-script request, from its body, its configuration
\* and what its complete() call settled with
ScriptOutcome(b, config, reply) ==
    IF ~scriptRequestSchema(b).success
    THEN toHttpError(ValidationError(Msg("Validation failed", <<>>),
                                     scriptRequestSchema(b).issues))
    ELSE IF ~getAIProvider(config, StartupRegistry).ok
    THEN toHttpError(getAIProvider(config, StartupRegistry).error)
    ELSE IF reply = Rejection
    THEN toHttpError(withAIProviderCaught.error)
    ELSE IF parseAndValidateAIResponse(reply, gameMasterScriptSchema, gameMasterScriptData).ok
    THEN [kind |-> "ok",
          body |-> parseAndValidateAIResponse(reply, gameMasterScriptSchema,
                                              gameMasterScriptData).value]
    ELSE toHttpError(parseAndValidateAIResponse(reply, gameMasterScriptSchema,
                                                gameMasterScriptData).error)

\* C16: with a generate-characters and a generate-script request interleaved in
\* every way, the provider registry stays what startup made it, the entries of
\* the game-data tables that the templates and the sheets refer to stay what the
\* tables hold, and the response of each request is the one its own body, its
\* own draws, its own configuration and its own provider replies give.
C16_NoSharedWrites ==
    /\ providerRegistry = StartupRegistry
    /\ other.pc = "responded" =>
          other.response = ScriptOutcome(other.body, other.config, other.reply)
    /\ \A i \in DOMAIN templates :
          /\ templates[i].suitSkill = suitSkills(templates[i].archetype, templates[i].suit)
          /\ templates[i].archetypeSkills[1] \in Range(archetypeSkills(templates[i].archetype))
          /\ (i \in DOMAIN results /\ results[i] # Empty) =>
                results[i].suitSkill = templates[i].suitSkill
    /\ (op = "characters" /\ response.kind = "ok") =>
          \A i \in DOMAIN templates :
              response.body[i] =
                  MergeSheet(templates[i],
                             characterIdentityData(parseAIJson(tasks[i].reply).value))
    /\ (op = "characters" /\ response.kind = "error") =>
          CASE thrown.stage = "request" ->
                  response = toHttpError(ValidationError(Msg("Validation failed", <<>>),
                                                         charactersRequestSchema(body).issues))
            [] thrown.stage = "provider" ->
                  thrown.error.message.template #
                      "AI provider {0} is not registered. Available providers: {1}. Ensure the provider module is imported."
            [] OTHER -> \E i \in DOMAIN tasks : response = toHttpError(tasks[i].error)

\* both requests were answered, the second after the first had fanned out
C16_Witness ==
    /\ op = "characters" /\ response.kind = "ok"
    /\ other.pc = "responded" /\ other.response.kind = "ok"

ParseOrder == <<"fence", "undefined", "trim", "repair", "parse">>

\* C17 as stated: parseAIJson tries a strict parse first, and the repair pass is
\* attempted only when that strict parse has failed.
C17_RepairOnlyAfterStrictParseFails ==
    call.fn = "parseAIJson" =>
        \A i \in DOMAIN call.steps :
            call.steps[i] = "repair" => \E j \in 1..(i - 1) : call.steps[j] = "parse"

\* C17, amended: parseAIJson succeeds, with the object the text denotes, on an
\* object given as it is, surrounded by whitespace, inside a fenced block with or
\* without the json tag (only the interior is parsed, whatever surrounds the
\* block) or written with a bare undefined after a colon (read as null); its
\* steps are fence extraction, undefined replacement, trim, then the repair pass,
\* which is applied every time, and then the single parse of the repaired text.
C17_ParsesObjectsRepairFirst ==
    call.fn = "parseAIJson" =>
        /\ call.steps = SubSeq(ParseOrder, 1, Len(call.steps))
        /\ call.at = "returned" =>
               \A sample \in Samples :
                   call.raw \in Wrappings(sample.text) =>
                       call.result = ok(JObject(sample.value))

C17_Witness ==
    /\ call.fn = "parseAIJson"
    /\ call.at = "returned"
    /\ \E sample \in UndefinedSamples : call.raw = FencedInProse(sample.text)
    /\ call.result.ok
    /\ call.steps = ParseOrder

ItemShaped(v) ==
    /\ v.t = "object"
    /\ DOMAIN v.o = {"name", "concealed"}
    /\ v.o.name.t = "string"
    /\ v.o.concealed.t = "boolean"

\* what C19 expects of an identity payload: TRUE accepted, FALSE rejected
IdentityExpected(v) ==
    /\ "name" \in DOMAIN v.o
    /\ \A key \in {"weapon", "instrument"} \cap DOMAIN v.o : ItemShaped(v.o[key])

\* C19: characterIdentitySchema rejects a payload without name, accepts one with
\* only name, accepts a weapon or instrument of the shape { name, concealed },
\* rejects a weapon or instrument that is a plain string or lacks concealed; and
\* a generate-script request body with a setting is accepted exactly if it has
\* sheets and the identity of every one of them, at whatever position, passes
\* this same schema.
C19_IdentityGate ==
    /\ call.fn = "characterIdentitySchema.safeParse" =>
           /\ call.success = IdentityExpected(call.input)
           /\ DOMAIN call.input.o = {"name"} => call.success
    /\ call.fn = "scriptRequestSchema.safeParse" =>
           call.success =
               /\ call.input.setting # <<>>
               /\ call.input.characters # <<>>
               /\ \A i \in DOMAIN call.input.characters :
                      IdentityExpected(JObject(call.input.characters[i].characterIdentity))

C19_Witness ==
    /\ call.fn = "scriptRequestSchema.safeParse"
    /\ call.input.setting # <<>>
    /\ Len(call.input.characters) = 2
    /\ call.input.characters[1] = SheetOf(IdentityBothItems)
    /\ call.input.characters[2] = SheetOf(IdentityWeaponNoConcealed)
    /\ ~call.success

\* the number of weak points of a script a provider replied with
WeakPointsOf(raw) == Len(raw.value.o.weakPoints.a)

\* C20: a generate-script reply whose script has fewer or more than 10 weak
\* points fails the schema and is answered with the Response error, 502 and
\* "AI returned an invalid response"; a GameMasterScript is returned to the
\* client only with exactly 10 weak points.
C20_ExactlyTenWeakPoints ==
    (op = "script" /\ pc = "responded") =>
        /\ response.kind = "ok" => Len(response.body.weakPoints.a) = weakPointCount
        /\ \A i \in DOMAIN tasks :
              (/\ Has(tasks[i], "reply")
               /\ tasks[i].reply \in ScriptReplies
               /\ tasks[i].reply.kind = "json"
               /\ WeakPointsOf(tasks[i].reply) # weakPointCount) =>
                  /\ response.kind = "error"
                  /\ response.statusCode = 502
                  /\ thrown.error.name = "AIResponseError"
                  /\ thrown.error.message = Msg("AI returned an invalid response", <<>>)

\* a script of 11 weak points was refused
C20_Witness ==
    /\ op = "script" /\ pc = "responded"
    /\ tasks # <<>> /\ Has(tasks[1], "reply")
    /\ tasks[1].reply = JsonText(ScriptWith(weakPointCount + 1))
    /\ response.kind = "error" /\ response.statusCode = 502

ExpectedProperties(system) ==
    IF system = "character"
    THEN {"name", "concept", "weapon", "instrument"}
    ELSE {"hook", "targets", "weakPoints", "scenes", "centralTension", "plot"}

\* C24 as stated: the prompt of every complete() call, built by
\* buildCharacterPrompt or buildScriptPrompt from a valid input, includes a
\* jsonSchema of type object whose properties name the expected output fields.
C24_PromptHasJsonSchema ==
    \A i \in DOMAIN tasks :
        /\ Has(tasks[i].prompt, "jsonSchema")
        /\ tasks[i].prompt.jsonSchema.type = "object"
        /\ ExpectedProperties(tasks[i].prompt.system)
               \subseteq DOMAIN tasks[i].prompt.jsonSchema.properties

\* a generate-script request issued its call with a prompt of system and user only
C24_Reached ==
    /\ op = "script" /\ pc = "await"
    /\ tasks[1].prompt.system = "script"
    /\ DOMAIN tasks[1].prompt = {"system", "user"}

\* the tool inputs of a reply, in arrival order
ToolPieces(reply) ==
    LET isTool(piece) == piece.kind = "tool"
    IN  SelectSeq(reply, isTool)

\* C22: AnthropicProvider.complete sends the tool definition exactly when the
\* prompt has a jsonSchema and the assistant prefill otherwise; on the tool path
\* the text it returns parses back to the input of the first tool_use block; and
\* on the tool path a reply without tool_use block makes it fail, which
\* withAIProvider reports as the Provider error (502), never as a Response error.
C22_ToolPathOrProviderError ==
    call.fn = "complete" =>
        /\ Has(call.request, "tools") = (Has(call.prompt, "jsonSchema") /\ call.prompt.jsonSchema = TestSchema)
        /\ ~Has(call.request, "tools") =>
               call.request.messages[Len(call.request.messages)].role = "assistant"
        /\ (call.at = "settled" /\ call.backend = "resolved" /\ Has(call.request, "tools")) =>
               IF ToolPieces(call.reply) = <<>>
               THEN /\ ~call.endpoint.ok
                    /\ call.endpoint.error.name = "AIProviderError"
                    /\ call.endpoint.error.name # "AIResponseError"
                    /\ toHttpError(call.endpoint.error).statusCode = 502
               ELSE /\ call.endpoint.ok
                    /\ JSONParse(call.endpoint.value.text)
                           = [ok |-> TRUE, value |-> ToolPieces(call.reply)[1].input]

\* the backend replied to a schema prompt without any tool_use block
C22_Witness ==
    /\ call.fn = "complete" /\ call.at = "settled"
    /\ call.backend = "resolved"
    /\ Has(call.request, "tools")
    /\ Len(call.reply) = MaxPieces
    /\ ToolPieces(call.reply) = <<>>
    /\ ~call.endpoint.ok

\* the texts of a reply, in arrival order
TextPieces(reply) ==
    LET isText(piece) == piece.kind = "text"
        texts == SelectSeq(reply, isText)
    IN  [i \in DOMAIN texts |-> texts[i].text]

\* C23: on the prefill path, the fragments stream yields, concatenated, are the
\* text complete returns for the same backend pieces: the brace followed by
\* the text pieces in arrival order, whatever is not text being skipped.
C23_StreamEqualsComplete ==
    (call.fn = "stream" /\ ~Has(call.request, "tools") /\ call.at = "returned") =>
        /\ Join(call.yielded) = complete(call.prompt, Content(call.reply)).text
        /\ Join(call.yielded) = <<P("{")>> \o Join(TextPieces(call.reply))

\* two text pieces were streamed after the brace
C23_Witness ==
    /\ call.fn = "stream" /\ call.at = "returned"
    /\ ~Has(call.prompt, "jsonSchema")
    /\ Len(TextPieces(call.reply)) = 2
    /\ Len(call.yielded) = 3

\* C25: every template generateCharacter produced agrees with the static tables
\* for the pair it drew: its suit skill is the table's entry for its archetype
\* and suit, it holds exactly one archetype skill and that one is in the pool of
\* its archetype, both characterization strings are the table's entries, the
\* three damage flags are false, and its suit is hearts, clubs or spades.
C25_TemplateMatchesTables ==
    \A t \in AllTemplates :
        /\ t.suit \in {"hearts", "clubs", "spades"}
        /\ t.archetype \in {"king", "queen", "jack"}
        /\ t.suitSkill = suitSkills(t.archetype, t.suit)
        /\ Len(t.archetypeSkills) = 1
        /\ \E k \in DOMAIN archetypeSkills(t.archetype) :
               t.archetypeSkills[1] = archetypeSkills(t.archetype)[k]
        /\ t.suitCharacterization = suitCharacterizations(t.suit)
        /\ t.archetypeCharacterization = archetypeCharacterizations(t.archetype)
        /\ t.damage = [hearts |-> FALSE, clubs |-> FALSE, spades |-> FALSE]

\* a returned call holds a jack of clubs, whose suit skill has limited uses, with
\* the last skill of the pool
C25_Witness ==
    /\ op = "randomizer" /\ pc = "returned" /\ randResult.ok
    /\ \E i \in DOMAIN randResult.value :
          /\ randResult.value[i].archetype = "jack"
          /\ randResult.value[i].suit = "clubs"
          /\ Has(randResult.value[i].suitSkill, "uses")
          /\ randResult.value[i].archetypeSkills[1] = archetypeSkills("jack")[archetypeSkillCount]

\* the string value under note of a text of QuotedSamples, as it was written
NoteWritten(raw) ==
    LET quoted == {i \in DOMAIN raw : raw[i].k = "quoted"}
    IN  JText(raw[CHOOSE i \in quoted : TRUE].content)

\* C26 as stated: the undefined-to-null step changes only bare, unquoted
\* undefined tokens: for an object whose string value holds a colon followed by
\* the word undefined inside the quotes, the parsed string value is the string
\* as it was written.
C26_QuotedTextUnchanged ==
    (call.fn = "parseAIJson" /\ call.at = "returned") =>
        \A text \in QuotedSamples :
            call.raw \in {text, FencedJson(text)} =>
                /\ call.result.ok
                /\ call.result.value.o.note = NoteWritten(call.raw)

\* the object whose note reads status: undefined was parsed
C26_Reached ==
    /\ call.fn = "parseAIJson" /\ call.at = "returned"
    /\ \E text \in QuotedSamples :
          /\ call.raw = text
          /\ NoteWritten(text) = JText(QuotedUndefined)
    /\ call.result.ok
    /\ call.result.value.o.note = JText(<<Word("status"), P(":"), Sp, Word("null")>>)

\* the optional field a reply wrote as undefined, if it wrote one
UndefinedField(reply) ==
    {field \in OptionalFields :
        reply \in {WrittenText(IdentityTextWith(field)),
                   WrittenText(FencedJson(IdentityTextWith(field)))}}

\* C28: an identity reply in which an optional field is the bare token
\* undefined parses, the field being read as null, and is then refused by
\* characterIdentitySchema, which takes the field absent but not null: the call
\* fails at the schema, no sheet is made of it, and the request is answered with
\* the Response error (502, "AI returned an invalid response").
C28_UndefinedFieldRejected ==
    \A i \in DOMAIN tasks :
        (tasks[i].reply.kind = "text" /\ UndefinedField(tasks[i].reply) # {}) =>
            /\ parseAIJson(tasks[i].reply).ok
            /\ \A field \in UndefinedField(tasks[i].reply) :
                   parseAIJson(tasks[i].reply).value.o[field] = JNull
            /\ tasks[i].status = "rejected"
            /\ tasks[i].stage = "schema"
            /\ tasks[i].error.name = "AIResponseError"
            /\ results[PromiseAllSlot(i)] = Empty
            /\ response.kind = "error"
            /\ response.statusCode = 502
            /\ response.statusMessage = Msg("AI returned an invalid response", <<>>)

\* the identity with weapon: undefined was refused
C28_Witness ==
    /\ op = "characters" /\ tasks # <<>>
    /\ tasks[1].reply = WrittenText(IdentityTextWith("weapon"))
    /\ tasks[1].stage = "schema"
    /\ response.kind = "error"

\* C29: generateRandomDistinctCharacters called with a count of zero or less
\* returns success with an empty list and draws no character; called with a
\* count above zero that is not whole and is below 9, it returns success with as many
\* templates as the next larger whole number; neither yields a Validation error,
\* which only a count above 9 does.
C29_OutOfRangeCounts ==
    /\ (call.fn = "generateRandomDistinctCharacters" /\ call.count <= 0) => draws = 0
    /\ (call.fn = "generateRandomDistinctCharacters" /\ pc = "returned") =>
           /\ call.count <= 0 => randResult = ok(<<>>)
           /\ (~IsWhole(call.count) /\ call.count > 0 /\ call.count < 9 + 9) =>
                  /\ randResult.ok
                  /\ 2 * Len(randResult.value) = call.count + 1
           /\ ~randResult.ok => (randResult.error.name = "ValidationError" /\ call.count > 9 + 9)

\* a call with two and a half returned three templates
C29_Witness ==
    /\ call.fn = "generateRandomDistinctCharacters" /\ pc = "returned"
    /\ call.count = 5
    /\ randResult.ok /\ Len(randResult.value) = 3
    /\ PairwiseDistinct(randResult.value)

\* C30: in a generate-characters request every identity call is issued in the
\* step that starts the fan-out, before any of them settles; the request is
\* rejected in the very step in which the first call fails, with the error of
\* that call, whatever its index; a call still in flight then can settle
\* later, and what it settles with changes neither the response nor the error
\* reported, only the tasks, the sheets kept aside and the log.
C30_FirstFailureInTimeWins ==
    [][(op = "characters" /\ pc = "fanout" /\ pc' = "fanout") =>
          /\ Len(tasks) = Len(templates)
          /\ tasks' # tasks =>
                \E i \in DOMAIN tasks :
                    /\ tasks[i].status = "pending" /\ tasks'[i].status # "pending"
                    /\ \A j \in DOMAIN tasks \ {i} : tasks'[j] = tasks[j]
                    /\ (response.kind = "none" /\ tasks'[i].status = "rejected") =>
                           /\ response' = toHttpError(tasks'[i].error)
                           /\ thrown' = [stage |-> tasks'[i].stage, error |-> tasks'[i].error]
                    /\ response.kind = "error" =>
                           /\ response' = response
                           /\ thrown' = thrown
                           /\ console \subseteq console'
          /\ response.kind = "error" =>
                \A j \in DOMAIN tasks :
                    tasks[j].status = "pending" => ENABLED CompleteRejects(j)]_vars

\* the second call failed first, in complete(); the first call failed later,
\* at the parse, and left its log line only
C30_Witness ==
    /\ op = "characters" /\ pc = "fanout"
    /\ Len(tasks) = 2
    /\ tasks[2].status = "rejected" /\ tasks[2].stage = "complete"
    /\ tasks[1].status = "rejected" /\ tasks[1].stage = "parse"
    /\ thrown.stage = "complete"
    /\ response = toHttpError(tasks[2].error)
    /\ response # toHttpError(tasks[1].error)
    /\ console # {}

\* C27: in the client campaign store, after any sequence of setInput,
\* setCharacters, setScript, setError and $reset (and of the caller writing
\* generating-characters to the status): isLoading is true exactly when the
\* status is generating-characters or generating-script; hasResult is true
\* exactly when the status is done; the two are never both true; campaign is
\* defined only when the status is done and a script is stored; and right
\* after $reset the refs are those of a store just defined.
C27_StoreGetters ==
    call.fn = "useCampaignStore" =>
        /\ call.store.generationStatus \in GenerationStatus
        /\ isLoading(call.store) <=>
              call.store.generationStatus \in {"generating-characters", "generating-script"}
        /\ hasResult(call.store) <=> call.store.generationStatus = "done"
        /\ ~(isLoading(call.store) /\ hasResult(call.store))
        /\ campaign(call.store) # Undefined =>
              /\ call.store.generationStatus = "done"
              /\ call.store.gmScript \in StoreScripts
              /\ campaign(call.store).gameMasterScript = call.store.gmScript
              /\ campaign(call.store).setting = call.store.campaignSetting
        /\ call.last = "$reset" =>
              /\ call.store = StoreRefs
              /\ call.store.generationStatus = "idle"
              /\ call.store.playerCount = 0
              /\ call.store.campaignSetting = <<>>
              /\ call.store.characters = <<>>
              /\ call.store.gmScript = Undefined
              /\ call.store.errorMessage = Undefined

\* a store brought to done with input, sheets and a script, whose campaign is
\* defined, that had failed before
C27_Witness ==
    /\ StoreIs("setScript")
    /\ call.store.playerCount = 3
    /\ call.store.characters # <<>>
    /\ call.store.errorMessage # Undefined
    /\ hasResult(call.store) /\ ~isLoading(call.store)
    /\ campaign(call.store) # Undefined

====
